---- MODULE Spec2Model ----
(***************************************************************************)
(* A model of the Heimdall JavaScript SDK (hmdl): the JWT claim decoder,   *)
(* the header identity extractors, the AsyncLocalStorage request context   *)
(* store and the MCP instrumentation wrapper.                              *)
(*                                                                         *)
(* JavaScript strings are sequences of one-character strings, so that      *)
(* toLowerCase, startsWith, slice, split, base64 decoding and JSON.parse   *)
(* are computed on the characters.  JavaScript values are tagged records.  *)
(***************************************************************************)
EXTENDS Integers, Sequences, FiniteSets, TLC

(***************************************************************************)
(* JavaScript values                                                       *)
(***************************************************************************)
Undefined == [t |-> "undefined"]

Null == [t |-> "null"]

Str(s) == [t |-> "string", s |-> s]

Num(n) == [t |-> "number", n |-> n]

Bool(b) == [t |-> "boolean", b |-> b]

Arr(a) == [t |-> "array", a |-> a]

\* an object is the sequence of its <<key, value>> entries in insertion order
Obj(p) == [t |-> "object", p |-> p]

\* a BigInt
BigInt(n) == [t |-> "bigint", n |-> n]

\* an object with a property that refers to the object itself
Circular == [t |-> "circular"]

\* Object.create(null) with a property that refers to the object itself: it
\* has no toString and no valueOf
BareCircular == [t |-> "bare"]

\* the outcome of a call that raised the error e
Thrown(e) == [t |-> "throw", e |-> e]

IsThrown(v) == v.t = "throw"

\* JavaScript truthiness of the values the model uses
Truthy(v) ==
    CASE v.t = "undefined" -> FALSE
      [] v.t = "null" -> FALSE
      [] v.t = "string" -> v.s # <<>>
      [] v.t = "number" -> v.n # 0
      [] v.t = "boolean" -> v.b
      [] OTHER -> TRUE

\* a || b
Or(a, b) == IF Truthy(a) THEN a ELSE b

\* a ?? b
Nullish(a, b) == IF a.t \in {"undefined", "null"} THEN b ELSE a

(***************************************************************************)
(* Characters                                                              *)
(***************************************************************************)
\* the printable ASCII characters, code 32 first
AsciiPrintable ==
    << " ", "!", "\"", "#", "$", "%", "&", "'", "(", ")", "*", "+", ",", "-", ".", "/",
       "0", "1", "2", "3", "4", "5", "6", "7", "8", "9", ":", ";", "<", "=", ">", "?",
       "@", "A", "B", "C", "D", "E", "F", "G", "H", "I", "J", "K", "L", "M", "N", "O",
       "P", "Q", "R", "S", "T", "U", "V", "W", "X", "Y", "Z", "[", "\\", "]", "^", "_",
       "<grave>", "a", "b", "c", "d", "e", "f", "g", "h", "i", "j", "k", "l", "m", "n", "o",
       "p", "q", "r", "s", "t", "u", "v", "w", "x", "y", "z", "{", "|", "}", "~" >>

\* a byte that is no printable ASCII character, once decoded to text
BadChar == "<?>"

CharCode(c) == 31 + (CHOOSE i \in 1..Len(AsciiPrintable) : AsciiPrintable[i] = c)

CharOfByte(b) == IF b >= 32 /\ b <= 126 THEN AsciiPrintable[b - 31] ELSE BadChar

UpperChars == SubSeq(AsciiPrintable, 34, 59)

LowerChars == SubSeq(AsciiPrintable, 66, 91)

Digits == SubSeq(AsciiPrintable, 17, 26)

IndexIn(c, seq) == IF \E i \in 1..Len(seq) : seq[i] = c
                   THEN CHOOSE i \in 1..Len(seq) : seq[i] = c
                   ELSE 0

\* String.prototype.toLowerCase on ASCII text
ToLowerCase(s) ==
    [i \in 1..Len(s) |->
        IF IndexIn(s[i], UpperChars) > 0 THEN LowerChars[IndexIn(s[i], UpperChars)] ELSE s[i]]

\* String.prototype.startsWith
StartsWith(s, p) == Len(s) >= Len(p) /\ SubSeq(s, 1, Len(p)) = p

\* String.prototype.slice(n)
Slice(s, n) == SubSeq(s, n + 1, Len(s))

RECURSIVE SplitFrom(_, _, _)
\* the segments of s from position i on, cur being the segment under way
SplitFrom(s, i, cur) ==
    IF i > Len(s) THEN << cur >>
    ELSE IF s[i] = "." THEN << cur >> \o SplitFrom(s, i + 1, << >>)
    ELSE SplitFrom(s, i + 1, Append(cur, s[i]))

\* String.prototype.split(".")
SplitDot(s) == SplitFrom(s, 1, << >>)

\* String.prototype.replace(/x/g, y) for single characters
ReplaceAll(s, x, y) == [i \in 1..Len(s) |-> IF s[i] = x THEN y ELSE s[i]]

RECURSIVE Repeat(_, _)
\* String.prototype.repeat
Repeat(c, n) == IF n <= 0 THEN << >> ELSE << c >> \o Repeat(c, n - 1)

(***************************************************************************)
(* Buffer.from(text, "base64" | "base64url") and Buffer.toString("utf-8")  *)
(***************************************************************************)
\* the standard base64 alphabet, value 0 first
Base64Alphabet ==
    SubSeq(AsciiPrintable, 34, 59) \o SubSeq(AsciiPrintable, 66, 91)
        \o SubSeq(AsciiPrintable, 17, 26) \o << "+", "/" >>

\* the value of a base64 character, -1 for a character outside the alphabets;
\* Node's decoder accepts the URL-safe characters under both encodings
Unbase64(c) ==
    CASE c = "-" -> 62
      [] c = "_" -> 63
      [] IndexIn(c, Base64Alphabet) > 0 -> IndexIn(c, Base64Alphabet) - 1
      [] OTHER -> -1

RECURSIVE LegalSextets(_, _)
\* the values of the legal characters of s from position i on, up to the first
\* "=": Node's decoder skips illegal characters and stops at the padding
LegalSextets(s, i) ==
    IF i > Len(s) \/ s[i] = "=" THEN << >>
    ELSE IF Unbase64(s[i]) < 0 THEN LegalSextets(s, i + 1)
    ELSE << Unbase64(s[i]) >> \o LegalSextets(s, i + 1)

RECURSIVE SextetsToBytes(_)
SextetsToBytes(q) ==
    IF Len(q) < 2 THEN << >>
    ELSE IF Len(q) = 2 THEN << (q[1] * 4) + (q[2] \div 16) >>
    ELSE IF Len(q) = 3 THEN << (q[1] * 4) + (q[2] \div 16), (q[2] % 16) * 16 + (q[3] \div 4) >>
    ELSE << (q[1] * 4) + (q[2] \div 16), (q[2] % 16) * 16 + (q[3] \div 4), (q[3] % 4) * 64 + q[4] >>
             \o SextetsToBytes(SubSeq(q, 5, Len(q)))

\* Buffer.from(s, "base64") and Buffer.from(s, "base64url"): never raises
BufferFromBase64(s) == SextetsToBytes(LegalSextets(s, 1))

\* Buffer.toString("utf-8"), on bytes that are ASCII
BufferToString(bytes) == [i \in 1..Len(bytes) |-> CharOfByte(bytes[i])]

\* Buffer.from(text): the bytes of ASCII text
BufferFromText(s) == [i \in 1..Len(s) |-> CharCode(s[i])]

Base64UrlAlphabet == SubSeq(Base64Alphabet, 1, 62) \o << "-", "_" >>

RECURSIVE BytesToBase64Url(_)
\* Buffer.toString("base64url"): no padding
BytesToBase64Url(b) ==
    IF Len(b) = 0 THEN << >>
    ELSE IF Len(b) = 1
    THEN << Base64UrlAlphabet[(b[1] \div 4) + 1], Base64UrlAlphabet[(b[1] % 4) * 16 + 1] >>
    ELSE IF Len(b) = 2
    THEN << Base64UrlAlphabet[(b[1] \div 4) + 1],
            Base64UrlAlphabet[(b[1] % 4) * 16 + (b[2] \div 16) + 1],
            Base64UrlAlphabet[(b[2] % 16) * 4 + 1] >>
    ELSE << Base64UrlAlphabet[(b[1] \div 4) + 1],
            Base64UrlAlphabet[(b[1] % 4) * 16 + (b[2] \div 16) + 1],
            Base64UrlAlphabet[(b[2] % 16) * 4 + (b[3] \div 64) + 1],
            Base64UrlAlphabet[(b[3] % 64) + 1] >>
             \o BytesToBase64Url(SubSeq(b, 4, Len(b)))

(***************************************************************************)
(* JSON.parse and JSON.stringify, on the JSON the model's tokens carry:    *)
(* null, true, false, non-negative integers, strings without escapes,      *)
(* arrays and objects, without white space                                 *)
(***************************************************************************)
ParseFail == [ok |-> FALSE]

ParseOk(v, i) == [ok |-> TRUE, v |-> v, i |-> i]

\* whether text s holds word w at position i
HasWord(s, i, w) == i + Len(w) - 1 <= Len(s) /\ SubSeq(s, i, i + Len(w) - 1) = w

IsDigit(c) == IndexIn(c, Digits) > 0

RECURSIVE ParseDigits(_, _, _)
\* the integer whose digits start at position i, acc being the value so far
ParseDigits(s, i, acc) ==
    IF i <= Len(s) /\ IsDigit(s[i])
    THEN ParseDigits(s, i + 1, (acc * 10) + (IndexIn(s[i], Digits) - 1))
    ELSE ParseOk(Num(acc), i)

RECURSIVE ParseChars(_, _, _)
\* the string whose characters start at position i, after the opening quote
ParseChars(s, i, acc) ==
    IF i > Len(s) \/ s[i] = "\\" \/ s[i] = BadChar THEN ParseFail
    ELSE IF s[i] = "\"" THEN ParseOk(Str(acc), i + 1)
    ELSE ParseChars(s, i + 1, Append(acc, s[i]))

RECURSIVE ParseValue(_, _)
RECURSIVE ParseElements(_, _, _)
RECURSIVE ParseMembers(_, _, _)
\* the JSON value that starts at position i of s
ParseValue(s, i) ==
    IF i > Len(s) THEN ParseFail
    ELSE IF HasWord(s, i, << "n", "u", "l", "l" >>) THEN ParseOk(Null, i + 4)
    ELSE IF HasWord(s, i, << "t", "r", "u", "e" >>) THEN ParseOk(Bool(TRUE), i + 4)
    ELSE IF HasWord(s, i, << "f", "a", "l", "s", "e" >>) THEN ParseOk(Bool(FALSE), i + 5)
    ELSE IF s[i] = "0" THEN ParseOk(Num(0), i + 1)
    ELSE IF IsDigit(s[i]) THEN ParseDigits(s, i, 0)
    ELSE IF s[i] = "\"" THEN ParseChars(s, i + 1, << >>)
    ELSE IF s[i] = "[" THEN
        IF i + 1 <= Len(s) /\ s[i + 1] = "]" THEN ParseOk(Arr(<< >>), i + 2)
        ELSE ParseElements(s, i + 1, << >>)
    ELSE IF s[i] = "{" THEN
        IF i + 1 <= Len(s) /\ s[i + 1] = "}" THEN ParseOk(Obj(<< >>), i + 2)
        ELSE ParseMembers(s, i + 1, << >>)
    ELSE ParseFail

\* the elements of an array from position i on, acc being those read so far
ParseElements(s, i, acc) ==
    LET e == ParseValue(s, i) IN
    IF ~e.ok \/ e.i > Len(s) THEN ParseFail
    ELSE IF s[e.i] = "," THEN ParseElements(s, e.i + 1, Append(acc, e.v))
    ELSE IF s[e.i] = "]" THEN ParseOk(Arr(Append(acc, e.v)), e.i + 1)
    ELSE ParseFail

\* Object entries after JSON.parse: a repeated key keeps its first position and
\* takes the last value
PutEntry(p, k, v) ==
    IF \E j \in 1..Len(p) : p[j][1] = k
    THEN [j \in 1..Len(p) |-> IF p[j][1] = k THEN << k, v >> ELSE p[j]]
    ELSE Append(p, << k, v >>)

\* the members of an object from position i on, acc being those read so far
ParseMembers(s, i, acc) ==
    IF i > Len(s) \/ s[i] # "\"" THEN ParseFail
    ELSE LET k == ParseChars(s, i + 1, << >>) IN
         IF ~k.ok \/ k.i > Len(s) \/ s[k.i] # ":" THEN ParseFail
         ELSE LET m == ParseValue(s, k.i + 1) IN
              IF ~m.ok \/ m.i > Len(s) THEN ParseFail
              ELSE IF s[m.i] = "," THEN ParseMembers(s, m.i + 1, PutEntry(acc, k.v.s, m.v))
              ELSE IF s[m.i] = "}" THEN ParseOk(Obj(PutEntry(acc, k.v.s, m.v)), m.i + 1)
              ELSE ParseFail

\* JSON.parse(text): the value, or a SyntaxError raised
JSONParse(s) ==
    LET r == ParseValue(s, 1) IN
    IF r.ok /\ r.i = Len(s) + 1 THEN r.v ELSE Thrown("SyntaxError")

RECURSIVE DigitsOf(_)
DigitsOf(n) == IF n < 10 THEN << Digits[n + 1] >> ELSE Append(DigitsOf(n \div 10), Digits[(n % 10) + 1])

RECURSIVE JSONStringify(_)
RECURSIVE StringifyElements(_, _)
RECURSIVE StringifyMembers(_, _)
\* JSON.stringify(v) for the values above
JSONStringify(v) ==
    CASE v.t = "null" -> << "n", "u", "l", "l" >>
      [] v.t = "boolean" -> IF v.b THEN << "t", "r", "u", "e" >> ELSE << "f", "a", "l", "s", "e" >>
      [] v.t = "number" -> DigitsOf(v.n)
      [] v.t = "string" -> << "\"" >> \o v.s \o << "\"" >>
      [] v.t = "array" -> << "[" >> \o StringifyElements(v.a, 1) \o << "]" >>
      [] v.t = "object" ->
            << "{" >> \o StringifyMembers(SelectSeq(v.p, LAMBDA e : e[2].t # "undefined"), 1)
                \o << "}" >>

StringifyElements(a, i) ==
    IF i > Len(a) THEN << >>
    ELSE (IF i > 1 THEN << "," >> ELSE << >>)
             \o (IF a[i].t = "undefined" THEN << "n", "u", "l", "l" >> ELSE JSONStringify(a[i]))
             \o StringifyElements(a, i + 1)

StringifyMembers(p, i) ==
    IF i > Len(p) THEN << >>
    ELSE (IF i > 1 THEN << "," >> ELSE << >>) \o << "\"" >> \o p[i][1] \o << "\"", ":" >>
             \o JSONStringify(p[i][2]) \o StringifyMembers(p, i + 1)

RECURSIVE JSONThrows(_)
\* JSON.stringify(v) raises a TypeError: v holds a BigInt or a circular structure
JSONThrows(v) ==
    CASE v.t \in { "bigint", "circular", "bare" } -> TRUE
      [] v.t = "array" -> \E i \in 1..Len(v.a) : JSONThrows(v.a[i])
      [] v.t = "object" -> \E i \in 1..Len(v.p) : JSONThrows(v.p[i][2])
      [] OTHER -> FALSE

\* the outcome of JSON.stringify(v): the text, undefined for undefined, or the
\* TypeError
JSONStringifyCall(v) ==
    IF JSONThrows(v) THEN Thrown("TypeError")
    ELSE IF v.t = "undefined" THEN Undefined
    ELSE Str(JSONStringify(v))

RECURSIVE StringThrows(_)
\* String(v) raises a TypeError: v, or an element of the array v, cannot be
\* converted to a primitive value
StringThrows(v) ==
    CASE v.t = "bare" -> TRUE
      [] v.t = "array" -> \E i \in 1..Len(v.a) : StringThrows(v.a[i])
      [] OTHER -> FALSE

RECURSIVE StringChars(_)
RECURSIVE JoinElements(_, _)
\* the text of String(v)
StringChars(v) ==
    CASE v.t = "undefined" -> << "u", "n", "d", "e", "f", "i", "n", "e", "d" >>
      [] v.t = "null" -> << "n", "u", "l", "l" >>
      [] v.t = "boolean" -> IF v.b THEN << "t", "r", "u", "e" >> ELSE << "f", "a", "l", "s", "e" >>
      [] v.t = "number" -> DigitsOf(v.n)
      [] v.t = "bigint" -> DigitsOf(v.n)
      [] v.t = "string" -> v.s
      [] v.t = "array" -> JoinElements(v.a, 1)
      [] v.t \in { "object", "circular" } ->
            << "[", "o", "b", "j", "e", "c", "t", " ", "O", "b", "j", "e", "c", "t", "]" >>

\* Array.prototype.join(","): null and undefined elements give no text
JoinElements(a, i) ==
    IF i > Len(a) THEN << >>
    ELSE (IF i > 1 THEN << "," >> ELSE << >>)
             \o (IF a[i].t \in { "undefined", "null" } THEN << >> ELSE StringChars(a[i]))
             \o JoinElements(a, i + 1)

\* the outcome of String(v)
StringCall(v) == IF StringThrows(v) THEN Thrown("TypeError") ELSE Str(StringChars(v))

(***************************************************************************)
(* The context module: JWT claims and the request context                  *)
(***************************************************************************)
MCP_SESSION_ID_HEADER == << "M", "c", "p", "-", "S", "e", "s", "s", "i", "o", "n", "-", "I", "d" >>

AUTHORIZATION_HEADER == << "A", "u", "t", "h", "o", "r", "i", "z", "a", "t", "i", "o", "n" >>

BearerPrefix == << "b", "e", "a", "r", "e", "r", " " >>

EmptyObject == Obj(<< >>)

\* the claim names extractUserIdFromToken probes, in order (context module)
ContextClaimNames ==
    << << "s", "u", "b" >>,
       << "u", "s", "e", "r", "_", "i", "d" >>,
       << "u", "s", "e", "r", "I", "d" >>,
       << "u", "i", "d" >>,
       << "u", "s", "e", "r" >> >>

\* the claim names the wrapper's private copy probes, in order
WrapperClaimNames == SubSeq(ContextClaimNames, 1, Len(ContextClaimNames) - 1)

\* obj[key] for an own property: the entry's value, undefined without an entry or
\* on a primitive or an array, and a TypeError on null or undefined
GetProp(obj, key) ==
    CASE obj.t \in {"null", "undefined"} -> Thrown("TypeError")
      [] obj.t = "object" ->
            IF \E j \in 1..Len(obj.p) : obj.p[j][1] = key
            THEN obj.p[CHOOSE j \in 1..Len(obj.p) : obj.p[j][1] = key][2]
            ELSE Undefined
      [] OTHER -> Undefined

\* the token without its 'Bearer ' prefix, in any letter case
StripBearer(token) ==
    IF StartsWith(ToLowerCase(token), BearerPrefix) THEN Slice(token, 7) ELSE token

\* base64url to base64, padded with "=" to a multiple of four characters
PadBase64(payload) ==
    LET base64 == ReplaceAll(ReplaceAll(payload, "-", "+"), "_", "/")
    IN  base64 \o Repeat("=", (4 - (Len(base64) % 4)) % 4)

\* parseJwtClaims decoding the first segment instead of the middle one
parseJwtClaimsHeaderSegment(token) ==
    LET parts == SplitDot(StripBearer(token)) IN
    IF Len(parts) # 3 THEN EmptyObject
    ELSE IF parts[2] = << >> THEN EmptyObject
    ELSE JSONParse(BufferToString(BufferFromBase64(PadBase64(parts[1]))))

\* what the body of parseJwtClaims's try block yields: a value, or an error raised
parseJwtClaimsTry(token) ==
    LET parts == SplitDot(StripBearer(token)) IN
    IF Len(parts) # 3 THEN EmptyObject
    ELSE IF parts[2] = << >> THEN EmptyObject
    ELSE JSONParse(BufferToString(BufferFromBase64(PadBase64(parts[2]))))

\* parseJwtClaims without its catch clause: a parse error reaches the caller
parseJwtClaimsUncaught(token) == parseJwtClaimsTry(token)

\* parseJwtClaims(token): string -> Record<string, unknown>, {} when parsing fails
parseJwtClaims(token) ==
    LET r == parseJwtClaimsTry(token) IN IF IsThrown(r) THEN EmptyObject ELSE r

RECURSIVE FirstNonEmptyStringClaim(_, _, _)
\* the loop of extractUserIdFromToken (context module) from the i-th name on
FirstNonEmptyStringClaim(claims, names, i) ==
    IF i > Len(names) THEN Undefined
    ELSE LET value == GetProp(claims, names[i]) IN
         IF IsThrown(value) THEN value
         ELSE IF value.t = "string" /\ Truthy(value) THEN value
         ELSE FirstNonEmptyStringClaim(claims, names, i + 1)

\* extractUserIdFromToken(token): string | undefined (context module)
extractUserIdFromToken(token) ==
    FirstNonEmptyStringClaim(parseJwtClaims(token), ContextClaimNames, 1)

RECURSIVE NormalizeHeaders(_, _, _)
\* normalizedHeaders after the entries of headers from the i-th on are stored
\* under their lower-cased keys
NormalizeHeaders(headers, i, acc) ==
    IF i > Len(headers) THEN acc
    ELSE NormalizeHeaders(headers, i + 1, PutEntry(acc, ToLowerCase(headers[i][1]), headers[i][2]))

\* createMCPContext(headers): the request context, or the error it raises
createMCPContext(headers) ==
    LET normalizedHeaders == Obj(NormalizeHeaders(headers, 1, << >>))
        sessionId == Or(Or(GetProp(normalizedHeaders, ToLowerCase(MCP_SESSION_ID_HEADER)),
                           GetProp(normalizedHeaders, << "m", "c", "p", "-", "s", "e", "s", "s", "i", "o", "n", "-", "i", "d" >>)),
                        GetProp(Obj(headers), MCP_SESSION_ID_HEADER))
        authHeader == Or(Or(GetProp(normalizedHeaders, ToLowerCase(AUTHORIZATION_HEADER)),
                            GetProp(normalizedHeaders, << "a", "u", "t", "h", "o", "r", "i", "z", "a", "t", "i", "o", "n" >>)),
                         GetProp(Obj(headers), AUTHORIZATION_HEADER))
        tokenClaims == IF Truthy(authHeader) THEN parseJwtClaims(authHeader.s) ELSE EmptyObject
        userId == IF Truthy(authHeader) THEN extractUserIdFromToken(authHeader.s) ELSE Undefined
    IN  IF IsThrown(userId) THEN userId
        ELSE [t |-> "context", sessionId |-> sessionId, userId |-> userId,
              headers |-> headers, tokenClaims |-> tokenClaims]

(***************************************************************************)
(* The wrappers module: its private copies and extractFromHeaders          *)
(***************************************************************************)
\* what the body of the private parseJwtClaims's try block yields
wrappersParseJwtClaimsTry(token) ==
    LET parts == SplitDot(StripBearer(token)) IN
    IF Len(parts) # 3 THEN EmptyObject
    ELSE IF parts[2] = << >> THEN EmptyObject
    ELSE JSONParse(BufferToString(BufferFromBase64(parts[2])))

\* the wrappers module's private parseJwtClaims
wrappersParseJwtClaims(token) ==
    LET r == wrappersParseJwtClaimsTry(token) IN IF IsThrown(r) THEN EmptyObject ELSE r

RECURSIVE FirstStringClaim(_, _, _)
\* the loop of the private extractUserIdFromToken from the i-th name on
FirstStringClaim(claims, names, i) ==
    IF i > Len(names) THEN Undefined
    ELSE LET value == GetProp(claims, names[i]) IN
         IF IsThrown(value) THEN value
         ELSE IF value.t = "string" THEN value
         ELSE FirstStringClaim(claims, names, i + 1)

\* the wrappers module's private extractUserIdFromToken
wrappersExtractUserIdFromToken(token) ==
    FirstStringClaim(wrappersParseJwtClaims(token), WrapperClaimNames, 1)

RECURSIVE ScanHeaders(_, _, _, _)
\* the loop of extractFromHeaders from the i-th entry on: << sessionId, authHeader >>
ScanHeaders(headers, i, sessionId, authHeader) ==
    IF i > Len(headers) THEN << sessionId, authHeader >>
    ELSE IF headers[i][2].t = "undefined" THEN ScanHeaders(headers, i + 1, sessionId, authHeader)
    ELSE LET lowerKey == ToLowerCase(headers[i][1])
             sid == IF lowerKey = ToLowerCase(MCP_SESSION_ID_HEADER) THEN headers[i][2]
                    ELSE sessionId
             auth == IF lowerKey # ToLowerCase(MCP_SESSION_ID_HEADER)
                        /\ lowerKey = ToLowerCase(AUTHORIZATION_HEADER)
                     THEN headers[i][2] ELSE authHeader
         IN  IF sid.t # "undefined" /\ auth.t # "undefined" THEN << sid, auth >>
             ELSE ScanHeaders(headers, i + 1, sid, auth)

\* extractFromHeaders(headers): {sessionId?, userId?}, or the error it raises
extractFromHeaders(headers) ==
    LET found == ScanHeaders(headers, 1, Undefined, Undefined)
        userId == IF Truthy(found[2]) THEN wrappersExtractUserIdFromToken(found[2].s)
                  ELSE Undefined
    IN  IF IsThrown(userId) THEN userId
        ELSE [t |-> "headerData", sessionId |-> found[1], userId |-> userId]

(***************************************************************************)
(* Inputs: claim mappings, tokens and header mappings                      *)
(***************************************************************************)
ClaimsSub == Obj(<< << << "s", "u", "b" >>, Str(<< "u", "1" >>) >> >>)

ClaimsSubAndUserId == Obj(<< << << "s", "u", "b" >>, Str(<< "u", "1" >>) >>, << << "u", "s", "e", "r", "_", "i", "d" >>, Str(<< "u", "2" >>) >> >>)

ClaimsUidBeforeSub == Obj(<< << << "u", "i", "d" >>, Str(<< "u", "4" >>) >>, << << "s", "u", "b" >>, Str(<< "u", "1" >>) >> >>)

ClaimsUserIdAndUid == Obj(<< << << "u", "s", "e", "r", "_", "i", "d" >>, Str(<< "u", "2" >>) >>, << << "u", "i", "d" >>, Str(<< "u", "4" >>) >> >>)

ClaimsEmptySub == Obj(<< << << "s", "u", "b" >>, Str(<<  >>) >>, << << "u", "s", "e", "r", "_", "i", "d" >>, Str(<< "u", "2" >>) >> >>)

ClaimsNumericSub == Obj(<< << << "s", "u", "b" >>, Num(7) >>, << << "u", "s", "e", "r", "I", "d" >>, Str(<< "u", "3" >>) >> >>)

ClaimsOnlyUser == Obj(<< << << "u", "s", "e", "r" >>, Str(<< "u", "5" >>) >> >>)

ClaimsNoId == Obj(<< << << "n", "a", "m", "e" >>, Str(<< "n" >>) >> >>)

ClaimsAllUnusable == Obj(<< << << "s", "u", "b" >>, Null >>, << << "u", "i", "d" >>, Str(<<  >>) >> >>)

\* claims whose base64url text holds both characters that differ from base64
ClaimsUrlChars == Obj(<< << << "s", "u", "b" >>, Str(<< "?", ">", "~" >>) >>, << << "s" >>, Str(<< "a", "?", ">" >>) >> >>)

\* the claim mappings (JSON objects) carried by well-formed tokens
ClaimInputs ==
    { ClaimsSub, ClaimsSubAndUserId, ClaimsUidBeforeSub, ClaimsUserIdAndUid, ClaimsEmptySub, ClaimsNumericSub, ClaimsOnlyUser, ClaimsNoId, ClaimsAllUnusable, ClaimsUrlChars, EmptyObject }

\* JSON payloads that are not objects
NonObjectPayloads == { Null, Num(5), Str(<< "s" >>), Arr(<< Num(1) >>) }

JwtHeaderSegment == << "h" >>

JwtSignature == << "s", "i", "g" >>

\* the tests' createJwtToken(claims): header.payload.signature, the payload being
\* the unpadded base64url text of JSON.stringify(claims)
createJwtToken(claims) ==
    JwtHeaderSegment \o << "." >> \o BytesToBase64Url(BufferFromText(JSONStringify(claims)))
        \o << "." >> \o JwtSignature

\* three segments whose middle one is the given text
TokenWithPayload(payload) == JwtHeaderSegment \o << "." >> \o payload \o << "." >> \o JwtSignature

\* a token whose payload is padded with = to a multiple of four characters
createPaddedJwtToken(claims) ==
    LET payload == BytesToBase64Url(BufferFromText(JSONStringify(claims))) IN
    TokenWithPayload(payload \o Repeat("=", (4 - (Len(payload) % 4)) % 4))

\* tokens that are not three segments, or whose middle segment is empty or does
\* not decode to JSON
MalformedTokens ==
    { << >>,
      << "n", "o", "t", "-", "a", "-", "j", "w", "t" >>,
      << "o", "n", "l", "y", ".", "t", "w", "o" >>,
      << "a", ".", "b", ".", "c", ".", "d" >>,
      JwtHeaderSegment \o << "." >> \o BytesToBase64Url(BufferFromText(JSONStringify(ClaimsSub))),
      createJwtToken(ClaimsSub) \o << ".", "x" >>,
      TokenWithPayload(<< >>),
      TokenWithPayload(<< "!", "!", "!", "i", "n", "v", "a", "l", "i", "d", "!", "!", "!" >>),
      TokenWithPayload(<< "!", "!", "!" >>),
      TokenWithPayload(BytesToBase64Url(BufferFromText(<< "n", "o", "t", "j", "s", "o", "n" >>))),
      TokenWithPayload(BytesToBase64Url(BufferFromText(<< "{", "\"", "s", "u", "b", "\"", ":" >>))) }

\* well-formed tokens: an object payload, a non-object payload, a padded payload
\* and a payload with a character outside the alphabet, which the decoder skips
WellFormedTokens ==
    { createJwtToken(c) : c \in ClaimInputs \cup NonObjectPayloads }
        \cup { createPaddedJwtToken(c) : c \in ClaimInputs }
        \cup { TokenWithPayload(BytesToBase64Url(BufferFromText(JSONStringify(ClaimsSub))) \o << "=" >>),
               TokenWithPayload(<< "!" >> \o BytesToBase64Url(BufferFromText(JSONStringify(ClaimsSub)))) }

TokenPrefixes == { << >>, << "B", "e", "a", "r", "e", "r", " " >>, << "b", "e", "a", "r", "e", "r", " " >>, << "B", "E", "A", "R", "E", "R", " " >>, << "B", "a", "s", "i", "c", " " >> }

\* every token the model passes to the decoders
TokenInputs == { p \o k : p \in TokenPrefixes, k \in WellFormedTokens \cup MalformedTokens }

\* spellings of the session-id header name
SessionKeys == { MCP_SESSION_ID_HEADER, << "m", "c", "p", "-", "s", "e", "s", "s", "i", "o", "n", "-", "i", "d" >>, << "M", "C", "P", "-", "S", "E", "S", "S", "I", "O", "N", "-", "I", "D" >> }

\* spellings of the Authorization header name
AuthKeys == { AUTHORIZATION_HEADER, << "a", "u", "t", "h", "o", "r", "i", "z", "a", "t", "i", "o", "n" >> }

OtherKeys == { << "X", "-", "C", "u", "s", "t", "o", "m" >> }

SessionValues == { Str(<<  >>), Str(<< "s", "1" >>), Str(<< "s", "2" >>) }

AuthValues ==
    { Str(<< >>),
      Str(<< "B", "e", "a", "r", "e", "r", " " >> \o createJwtToken(ClaimsSub)),
      Str(createJwtToken(ClaimsEmptySub)),
      Str(createJwtToken(ClaimsOnlyUser)),
      Str(createJwtToken(Null)),
      Str(<< "n", "o", "t", "-", "a", "-", "j", "w", "t" >>) }

\* the entries a header mapping may hold (Record<string, string>)
HeaderEntries ==
    { << k, v >> : k \in SessionKeys, v \in SessionValues }
        \cup { << k, v >> : k \in AuthKeys, v \in AuthValues }
        \cup { << k, Str(<< "v" >>) >> : k \in OtherKeys }

\* the largest number of entries of a header mapping
MaxHeaders == 2

\* header mappings: up to MaxHeaders entries in insertion order, no key twice
HeaderInputs ==
    { h \in UNION { [1..n -> HeaderEntries] : n \in 0..MaxHeaders } :
        \A i, j \in 1..Len(h) : i # j => h[i][1] # h[j][1] }

(***************************************************************************)
(* Inputs of the request context store                                     *)
(***************************************************************************)
\* the header mappings given to runWithMCPContext and runWithMCPContextAsync;
\* createMCPContext raises on the last one
ScopeHeaders ==
    { << << MCP_SESSION_ID_HEADER, Str(<< "s", "1" >>) >> >>,
      << << << "m", "c", "p", "-", "s", "e", "s", "s", "i", "o", "n", "-", "i", "d" >>, Str(<< "s", "2" >>) >>,
         << << "a", "u", "t", "h", "o", "r", "i", "z", "a", "t", "i", "o", "n" >>, Str(<< "B", "e", "a", "r", "e", "r", " " >> \o createJwtToken(ClaimsSub)) >> >>,
      << << AUTHORIZATION_HEADER, Str(createJwtToken(Null)) >> >> }

\* createMCPContext on each of them, computed once
ScopeContext == [headers \in ScopeHeaders |-> createMCPContext(headers)]

\* the arguments of setMCPContext: undefined, and a context
SetArguments ==
    { Undefined, ScopeContext[<< << MCP_SESSION_ID_HEADER, Str(<< "s", "1" >>) >> >>] }

\* the errors a callback raises
CallbackErrors == { "E1", "E2" }

\* the number of scopes (run calls) of one behaviour
MaxScopes == 2

ScopeIds == 1..MaxScopes

(***************************************************************************)
(* Inputs of the client and the wrappers                                   *)
(***************************************************************************)
\* a header mapping as a value: its entries in insertion order
Headers(h) == [t |-> "headers", h |-> h]

\* the headers option of a wrapper: not given, or a mapping whose values may
\* be undefined; no mapping holds a header under two spellings
WrapperHeaders ==
    { Undefined,
      Headers(<< << MCP_SESSION_ID_HEADER, Str(<< "h", "s" >>) >> >>),
      Headers(<< << << "m", "c", "p", "-", "s", "e", "s", "s", "i", "o", "n", "-", "i", "d" >>, Str(<< >>) >>,
                 << << "a", "u", "t", "h", "o", "r", "i", "z", "a", "t", "i", "o", "n" >>, Str(<< "B", "e", "a", "r", "e", "r", " " >> \o createJwtToken(ClaimsSub)) >> >>),
      Headers(<< << MCP_SESSION_ID_HEADER, Undefined >>,
                 << AUTHORIZATION_HEADER, Str(createJwtToken(ClaimsEmptySub)) >> >>),
      Headers(<< << MCP_SESSION_ID_HEADER, Str(<< "h", "s" >>) >>,
                 << AUTHORIZATION_HEADER, Str(createJwtToken(Null)) >> >>) }

\* extractFromHeaders on each mapping, computed once
WrapperHeaderData ==
    [headers \in WrapperHeaders \ { Undefined } |-> extractFromHeaders(headers.h)]

\* an extractor option that is not given
NoExtractor == [t |-> "absent"]

\* what a sessionExtractor does when called: it is not given, it returns
\* undefined, "" or an identifier, or it raises
SessionExtractors ==
    { NoExtractor, Undefined, Str(<< >>), Str(<< "x", "s" >>), Thrown("ExtractorError") }

UserExtractors ==
    { NoExtractor, Undefined, Str(<< >>), Str(<< "x", "u" >>), Thrown("ExtractorError") }

\* the extractors of one wrapper: each kind of session extractor and of user
\* extractor alone, and pairs of extractors that behave differently
ExtractorPairs ==
    { << sx, NoExtractor >> : sx \in SessionExtractors }
        \cup { << NoExtractor, ux >> : ux \in UserExtractors }
        \cup { << Thrown("ExtractorError"), Str(<< "x", "u" >>) >>,
               << Str(<< "x", "s" >>), Thrown("ExtractorError") >>,
               << Str(<< >>), Str(<< "x", "u" >>) >>,
               << Str(<< "x", "s" >>), Str(<< "x", "u" >>) >> }

\* the options of a wrapper: the identity options with input and output
\* captured, and the capture options alone
WrapperOptions ==
    { [name |-> Undefined, paramNames |-> Undefined,
       headers |-> h, sessionExtractor |-> x[1], userExtractor |-> x[2],
       captureInput |-> TRUE, captureOutput |-> TRUE] :
          h \in WrapperHeaders, x \in ExtractorPairs }
        \cup { [name |-> Undefined, paramNames |-> Undefined,
                headers |-> Undefined, sessionExtractor |-> NoExtractor,
                userExtractor |-> NoExtractor, captureInput |-> ci, captureOutput |-> co] :
                  ci \in BOOLEAN, co \in BOOLEAN }

\* traceMCPTool, traceMCPResource, traceMCPPrompt
Wrappers == { "tool", "resource", "prompt" }

\* the name of the wrapped function, the arguments it is called with, the value
\* it returns and the error it raises
FnName == << "f", "n" >>

FnArgs == << Str(<< "q" >>) >>

FnValue == Str(<< "r" >>)

FnError == "FnError"

\* a wrapped function and a call of it: the name of the function, the arguments
\* of the call, the value fn returns or resolves with, the error it raises or
\* rejects with
PlainFn == [name |-> FnName, args |-> FnArgs, value |-> FnValue, error |-> FnError]

\* what fn does when it is called: it raises, or returns a value or a promise
FnStarts == { "throws", "returns" }

\* the configurations given to the constructor
ClientConfigs ==
    { [enabled |-> Undefined, sessionId |-> Undefined, userId |-> Undefined],
      [enabled |-> Undefined, sessionId |-> Str(<< "c", "s" >>), userId |-> Str(<< "c", "u" >>)],
      [enabled |-> Bool(FALSE), sessionId |-> Str(<< "c", "s" >>), userId |-> Undefined] }

\* the environment variables the constructor finds
ClientEnvs ==
    { [HEIMDALL_ENABLED |-> Undefined, HEIMDALL_SESSION_ID |-> Undefined,
       HEIMDALL_USER_ID |-> Undefined],
      [HEIMDALL_ENABLED |-> Str(<< "T", "r", "u", "e" >>),
       HEIMDALL_SESSION_ID |-> Str(<< "e", "s" >>), HEIMDALL_USER_ID |-> Str(<< >>)] }

\* the errors fn raises, by name: new Error("boom"), new RangeError("far"), the
\* string "boom" and an object made by Object.create(null)
FnErrors == { FnError, "FnRangeError", "FnString", "FnBare" }

\* the paramNames option: not given, empty, and fewer, as many and more names
\* than the call has arguments
IOParamNames ==
    { Undefined,
      Arr(<< >>),
      Arr(<< Str(<< "q", "u", "e", "r", "y" >>) >>),
      Arr(<< Str(<< "q", "u", "e", "r", "y" >>), Str(<< "l", "i", "m", "i", "t" >>) >>),
      Arr(<< Str(<< "q", "u", "e", "r", "y" >>), Str(<< "l", "i", "m", "i", "t" >>),
             Str(<< "e", "x", "t", "r", "a" >>) >>) }

\* the options of a wrapper that concern names and capture, and one with
\* extractors and headers
IOOptions ==
    { [name |-> n, paramNames |-> pn, headers |-> Undefined,
       sessionExtractor |-> NoExtractor, userExtractor |-> NoExtractor,
       captureInput |-> TRUE, captureOutput |-> TRUE] :
          n \in { Undefined, Str(<< "o", "p" >>) }, pn \in IOParamNames }
        \cup { [name |-> Undefined, paramNames |-> Undefined, headers |-> Undefined,
                sessionExtractor |-> NoExtractor, userExtractor |-> NoExtractor,
                captureInput |-> ci, captureOutput |-> co] : ci \in BOOLEAN, co \in BOOLEAN }
        \cup { [name |-> Undefined, paramNames |-> Undefined,
                headers |-> Headers(<< << MCP_SESSION_ID_HEADER, Str(<< "h", "s" >>) >> >>),
                sessionExtractor |-> Str(<< "x", "s" >>), userExtractor |-> Str(<< "x", "u" >>),
                captureInput |-> TRUE, captureOutput |-> TRUE] }

\* argument lists: ("hello", 5), none, one argument, and arguments that
\* JSON.stringify or String cannot convert
IOArgs ==
    { << Str(<< "h", "e", "l", "l", "o" >>), Num(5) >>,
      << >>,
      << Undefined >>,
      << BigInt(7) >>,
      << Circular >>,
      << BareCircular >> }

\* values fn returns
IOValues == { FnValue, Undefined, BigInt(7), Circular, BareCircular }

\* (query, limit) => ({ results: [query], limit }) called with ("hello", 5)
SearchFn ==
    [name |-> << "s", "e", "a", "r", "c", "h" >>,
     args |-> << Str(<< "h", "e", "l", "l", "o" >>), Num(5) >>,
     value |-> Obj(<< << << "r", "e", "s", "u", "l", "t", "s" >>, Arr(<< Str(<< "h", "e", "l", "l", "o" >>) >>) >>,
                      << << "l", "i", "m", "i", "t" >>, Num(5) >> >>),
     error |-> FnError]

\* the functions wrapped and their calls: one of the argument lists, of the
\* returned values or of the raised errors, or a function without a name
IOFns ==
    { [PlainFn EXCEPT !.args = args] : args \in IOArgs }
        \cup { [PlainFn EXCEPT !.value = value] : value \in IOValues }
        \cup { [PlainFn EXCEPT !.error = error] : error \in FnErrors }
        \cup { [PlainFn EXCEPT !.name = << >>], SearchFn }

\* the configurations of the client: enabled by default, and disabled
IOConfigs ==
    { [enabled |-> Undefined, sessionId |-> Undefined, userId |-> Undefined],
      [enabled |-> Bool(FALSE), sessionId |-> Undefined, userId |-> Undefined] }

\* an environment without Heimdall variables
NoEnv ==
    [HEIMDALL_ENABLED |-> Undefined, HEIMDALL_SESSION_ID |-> Undefined,
     HEIMDALL_USER_ID |-> Undefined]

\* the header mapping of the scope a wrapped function is called in
WrapScopeHeaders ==
    << << << "m", "c", "p", "-", "s", "e", "s", "s", "i", "o", "n", "-", "i", "d" >>, Str(<< "s", "2" >>) >>,
       << << "a", "u", "t", "h", "o", "r", "i", "z", "a", "t", "i", "o", "n" >>, Str(<< "B", "e", "a", "r", "e", "r", " " >> \o createJwtToken(ClaimsSub)) >> >>

\* the number of scopes a behaviour with wrapped calls enters
MaxWrapScopes == 1

\* the number of calls of wrapped functions of one behaviour
MaxInvocations == 1

\* the number of wrapped calls under way at a time in a behaviour with
\* concurrent calls
MaxConcurrent == 2

InvocationIds == 1..(IF MaxConcurrent > MaxInvocations THEN MaxConcurrent ELSE MaxInvocations)

(***************************************************************************)
(* State                                                                   *)
(***************************************************************************)
VARIABLES
    call,       \* a call of a decoder function: its name, argument and result
    store,      \* mcpContextStorage's store of the executing async resource
    stack,      \* the run calls and continuations executing now, innermost last
    scopes,     \* the run calls made so far, by number
    obs,        \* the getMCPContext() call of the last step: who called, what it returned
    delivered,  \* the outcome of a run call that the last step handed to its caller
    instance,   \* HeimdallClient.instance: null or the client
    invocations, \* the calls of wrapped functions made so far, by number
    clients     \* the clients made so far, the constructions and the resets under way

decoderVars == << call >>

contextVars == << store, stack, scopes, obs, delivered >>

wrapVars == << instance, invocations, clients >>

vars == << call, store, stack, scopes, obs, delivered, instance, invocations, clients >>

\* no function called yet on the argument
Pending(arg) == [fn |-> "none", arg |-> arg, ret |-> Undefined]

NoCall == Pending(Undefined)

\* a run call not made yet
UnusedScope ==
    [status |-> "unused", kind |-> "none", headers |-> << >>, caller |-> 0,
     before |-> Undefined, captured |-> Undefined, awaiting |-> 0, resumed |-> FALSE,
     error |-> "none"]

\* a call of a wrapped function not made yet
UnusedInvocation ==
    [status |-> "unused", wrapper |-> "none", options |-> Undefined, fn |-> Undefined,
     fnStart |-> "none", client |-> Null, ambient |-> Undefined, span |-> << >>,
     headerReads |-> 0, extractorCalls |-> 0, serializeCalls |-> 0, fnCalls |-> 0,
     received |-> << >>, fnEnd |-> "none", outcome |-> Undefined]

\* the last step did not call setMCPContext()
NoSet == [by |-> -1, arg |-> Undefined, before |-> Undefined, after |-> Undefined]

\* the last step did not call getMCPContext()
NoObs == [by |-> -1, value |-> Undefined, afterAwait |-> FALSE, set |-> NoSet]

\* the last step handed no outcome of a run call to its caller
NoDelivery == [to |-> 0, from |-> 0, error |-> "none", ambient |-> Undefined]

\* the module is loaded: no scope is entered, nothing ran
ContextInit ==
    /\ store = Undefined
    /\ stack = << >>
    /\ scopes = [i \in ScopeIds |-> UnusedScope]
    /\ obs = NoObs
    /\ delivered = NoDelivery

\* the argument is a token (a string) or a header mapping
DecoderInit ==
    call \in { Pending(Str(token)) : token \in TokenInputs }
                \cup { Pending(Headers(h)) : h \in HeaderInputs }

\* no client was constructed and no wrapped function was called
WrapInit ==
    /\ instance = Null
    /\ invocations = [k \in InvocationIds |-> UnusedInvocation]
    /\ clients = [made |-> 0, returned |-> {}, resetting |-> 0, providers |-> << >>]

InitDecoders == DecoderInit /\ ContextInit /\ WrapInit

InitContext == call = NoCall /\ ContextInit /\ WrapInit

InitWrap == call = NoCall /\ ContextInit /\ WrapInit

(***************************************************************************)
(* The decoders, each called once on the argument                          *)
(***************************************************************************)
CallParseJwtClaims ==
    /\ call.fn = "none" /\ call.arg.t = "string"
    /\ call' = [call EXCEPT !.fn = "parseJwtClaims", !.ret = parseJwtClaims(call.arg.s)]
    /\ UNCHANGED << contextVars, wrapVars >>

CallExtractUserIdFromToken ==
    /\ call.fn = "none" /\ call.arg.t = "string"
    /\ call' = [call EXCEPT !.fn = "extractUserIdFromToken",
                            !.ret = extractUserIdFromToken(call.arg.s)]
    /\ UNCHANGED << contextVars, wrapVars >>

CallCreateMCPContext ==
    /\ call.fn = "none" /\ call.arg.t = "headers"
    /\ call' = [call EXCEPT !.fn = "createMCPContext", !.ret = createMCPContext(call.arg.h)]
    /\ UNCHANGED << contextVars, wrapVars >>

CallWrappersParseJwtClaims ==
    /\ call.fn = "none" /\ call.arg.t = "string"
    /\ call' = [call EXCEPT !.fn = "wrappers.parseJwtClaims",
                            !.ret = wrappersParseJwtClaims(call.arg.s)]
    /\ UNCHANGED << contextVars, wrapVars >>

CallWrappersExtractUserIdFromToken ==
    /\ call.fn = "none" /\ call.arg.t = "string"
    /\ call' = [call EXCEPT !.fn = "wrappers.extractUserIdFromToken",
                            !.ret = wrappersExtractUserIdFromToken(call.arg.s)]
    /\ UNCHANGED << contextVars, wrapVars >>

CallExtractFromHeaders ==
    /\ call.fn = "none" /\ call.arg.t = "headers"
    /\ call' = [call EXCEPT !.fn = "extractFromHeaders", !.ret = extractFromHeaders(call.arg.h)]
    /\ UNCHANGED << contextVars, wrapVars >>

NextDecoders ==
    \/ CallParseJwtClaims
    \/ CallExtractUserIdFromToken
    \/ CallCreateMCPContext
    \/ CallWrappersParseJwtClaims
    \/ CallWrappersExtractUserIdFromToken
    \/ CallExtractFromHeaders

SpecDecoders == InitDecoders /\ [][NextDecoders]_vars

(***************************************************************************)
(* The request context store: mcpContextStorage, an AsyncLocalStorage      *)
(***************************************************************************)
\* the scope whose callback is executing; 0 for code outside every scope
Current == IF stack = << >> THEN 0 ELSE stack[Len(stack)].scope

\* the number of the next run call
NextScope == Cardinality({ i \in ScopeIds : scopes[i].status # "unused" }) + 1

\* AsyncLocalStorage.getStore(): the store of the executing async resource
AlsGetStore == store

\* getMCPContext()
getMCPContext == AlsGetStore

\* a run that replaces no store: a nested callback runs with the enclosing one
AlsRunEnterKeepsOuter(ctx) == IF store = Undefined THEN ctx ELSE store

\* AsyncLocalStorage.run(ctx, fn), on entry: fn runs with ctx as the store
AlsRunEnter(ctx) == ctx

\* a run that leaves its store in place when fn has returned or raised
AlsRunExitKeepsStore(frame) == store

\* AsyncLocalStorage.run(ctx, fn), on exit (fn returned, raised or returned a
\* pending promise): the store that was current before the run is put back
AlsRunExit(frame) == frame.saved

\* a continuation that runs with whatever store is current when it is resumed
AlsResumeSharedStore(captured) == store

\* the store a continuation runs with: the one that was current where the
\* awaiting code suspended, which the async resource of the promise kept
AlsResume(captured) == captured

\* a run that catches what the callback raised
Swallowed(e) == "none"

\* the error a caller of run receives when the callback raised e: run has no
\* catch clause, and an async function rejects with what its body returned
Propagated(e) == e

\* the scope made by a run call with these headers from the executing code
NewScope(kind, headers) ==
    [UnusedScope EXCEPT !.status = "running", !.kind = kind, !.headers = headers,
                        !.caller = Current, !.before = store]

\* runWithMCPContext(headers, fn), up to the entry of fn.  When
\* createMCPContext raises, fn is not called and the caller receives the error.
runWithMCPContext(headers) ==
    /\ NextScope \in ScopeIds
    /\ LET ctx == ScopeContext[headers] IN
       IF IsThrown(ctx)
       THEN /\ scopes' = [scopes EXCEPT ![NextScope] =
                            [NewScope("sync", headers) EXCEPT !.status = "failed", !.error = ctx.e]]
            /\ delivered' = [to |-> Current, from |-> NextScope, error |-> Propagated(ctx.e),
                             ambient |-> store]
            /\ UNCHANGED << store, stack >>
       ELSE /\ scopes' = [scopes EXCEPT ![NextScope] = NewScope("sync", headers)]
            /\ stack' = Append(stack, [scope |-> NextScope, saved |-> store])
            /\ store' = AlsRunEnter(ctx)
            /\ delivered' = NoDelivery
    /\ obs' = NoObs
    /\ UNCHANGED << call, wrapVars >>

\* runWithMCPContextAsync(headers, fn), up to the entry of fn.  When
\* createMCPContext raises, the promise returned is rejected with the error.
runWithMCPContextAsync(headers) ==
    /\ NextScope \in ScopeIds
    /\ LET ctx == ScopeContext[headers] IN
       IF IsThrown(ctx)
       THEN /\ scopes' = [scopes EXCEPT ![NextScope] =
                            [NewScope("async", headers) EXCEPT !.status = "failed", !.error = ctx.e]]
            /\ UNCHANGED << store, stack >>
       ELSE /\ scopes' = [scopes EXCEPT ![NextScope] = NewScope("async", headers)]
            /\ stack' = Append(stack, [scope |-> NextScope, saved |-> store])
            /\ store' = AlsRunEnter(ctx)
    /\ obs' = NoObs
    /\ delivered' = NoDelivery
    /\ UNCHANGED << call, wrapVars >>

\* the function mcpContextMiddleware() returns, called with a request that has
\* these headers, up to the entry of next; what next returns is dropped
mcpContextMiddleware(headers) ==
    /\ NextScope \in ScopeIds
    /\ LET ctx == ScopeContext[headers] IN
       IF IsThrown(ctx)
       THEN /\ scopes' = [scopes EXCEPT ![NextScope] =
                            [NewScope("middleware", headers) EXCEPT !.status = "failed",
                                                                    !.error = ctx.e]]
            /\ delivered' = [to |-> Current, from |-> NextScope, error |-> Propagated(ctx.e),
                             ambient |-> store]
            /\ UNCHANGED << store, stack >>
       ELSE /\ scopes' = [scopes EXCEPT ![NextScope] = NewScope("middleware", headers)]
            /\ stack' = Append(stack, [scope |-> NextScope, saved |-> store])
            /\ store' = AlsRunEnter(ctx)
            /\ delivered' = NoDelivery
    /\ obs' = NoObs
    /\ UNCHANGED << call, wrapVars >>

\* the executing code calls getMCPContext()
ReadContext ==
    /\ obs' = [by |-> Current, value |-> getMCPContext,
               afterAwait |-> Current # 0 /\ scopes[Current].resumed, set |-> NoSet]
    /\ delivered' = NoDelivery
    /\ UNCHANGED << call, store, stack, scopes, wrapVars >>

\* a setMCPContext that stores its argument for the executing async resource
StoreAssigned(ctx) == ctx

\* the store of the executing async resource after setMCPContext(ctx): the
\* function reads the store, warns when there is one, and writes nothing
StoreAfterSetMCPContext(ctx) == AlsGetStore

\* setMCPContext(ctx), called by the code that executes now, with
\* getMCPContext() called immediately before and after it
setMCPContext(ctx) ==
    /\ store' = StoreAfterSetMCPContext(ctx)
    /\ obs' = [NoObs EXCEPT !.set = [by |-> Current, arg |-> ctx, before |-> getMCPContext,
                                      after |-> StoreAfterSetMCPContext(ctx)]]
    /\ delivered' = NoDelivery
    /\ UNCHANGED << call, stack, scopes, wrapVars >>

\* the executing callback returns: run returns its value (sync), or the promise
\* of the async callback is fulfilled
CallbackReturns ==
    /\ stack # << >>
    /\ LET frame == stack[Len(stack)] IN
       /\ stack' = SubSeq(stack, 1, Len(stack) - 1)
       /\ store' = AlsRunExit(frame)
       /\ scopes' = [scopes EXCEPT ![frame.scope].status = "returned"]
       /\ delivered' = IF scopes[frame.scope].kind # "async"
                       THEN [to |-> scopes[frame.scope].caller, from |-> frame.scope,
                             error |-> "none", ambient |-> AlsRunExit(frame)]
                       ELSE NoDelivery
    /\ obs' = NoObs
    /\ UNCHANGED << call, wrapVars >>

\* the executing callback raises e: run's finally clause puts the store back and
\* the caller receives e (sync), or the promise of the async callback is rejected
CallbackThrows(e) ==
    /\ stack # << >>
    /\ LET frame == stack[Len(stack)] IN
       /\ stack' = SubSeq(stack, 1, Len(stack) - 1)
       /\ store' = AlsRunExit(frame)
       /\ scopes' = [scopes EXCEPT ![frame.scope].status = "failed", ![frame.scope].error = e]
       /\ delivered' = IF scopes[frame.scope].kind # "async"
                       THEN [to |-> scopes[frame.scope].caller, from |-> frame.scope,
                             error |-> Propagated(e), ambient |-> AlsRunExit(frame)]
                       ELSE NoDelivery
    /\ obs' = NoObs
    /\ UNCHANGED << call, wrapVars >>

\* the async callbacks called by scope i whose promise i can await
Awaitable(i) == { c \in ScopeIds : scopes[c].kind = "async" /\ scopes[c].caller = i
                                     /\ scopes[c].status # "unused" }

\* the executing async callback suspends at an await, on a timer (c = 0) or on
\* the promise of an async run it called; control returns to run, which puts
\* the store back, or to the event loop
CallbackAwaits(c) ==
    /\ stack # << >>
    /\ LET frame == stack[Len(stack)] IN
       /\ scopes[frame.scope].kind = "async"
       /\ c \in {0} \cup Awaitable(frame.scope)
       /\ stack' = SubSeq(stack, 1, Len(stack) - 1)
       /\ store' = AlsRunExit(frame)
       /\ scopes' = [scopes EXCEPT ![frame.scope].status = "suspended",
                                   ![frame.scope].captured = AlsGetStore,
                                   ![frame.scope].awaiting = c]
    /\ obs' = NoObs
    /\ delivered' = NoDelivery
    /\ UNCHANGED << call, wrapVars >>

Settled(c) == scopes[c].status \in { "returned", "failed" }

\* the event loop resumes the continuation of a suspended callback, whose timer
\* fired or whose awaited promise settled; a rejection is raised at the await
CallbackResumes(i) ==
    /\ stack = << >>
    /\ scopes[i].status = "suspended"
    /\ IF scopes[i].awaiting = 0 THEN TRUE ELSE Settled(scopes[i].awaiting)
    /\ stack' = << [scope |-> i, saved |-> store] >>
    /\ store' = AlsResume(scopes[i].captured)
    /\ scopes' = [scopes EXCEPT ![i].status = "running", ![i].resumed = TRUE]
    /\ delivered' = IF scopes[i].awaiting # 0
                    THEN [to |-> i, from |-> scopes[i].awaiting,
                          error |-> Propagated(scopes[scopes[i].awaiting].error),
                          ambient |-> AlsResume(scopes[i].captured)]
                    ELSE NoDelivery
    /\ obs' = NoObs
    /\ UNCHANGED << call, wrapVars >>

\* code outside every scope awaits the promise of an async run it called
TopLevelAwaits(c) ==
    /\ stack = << >>
    /\ c \in Awaitable(0)
    /\ Settled(c)
    /\ delivered' = [to |-> 0, from |-> c, error |-> Propagated(scopes[c].error),
                     ambient |-> AlsGetStore]
    /\ obs' = NoObs
    /\ UNCHANGED << call, store, stack, scopes, wrapVars >>

NextContext ==
    \/ \E headers \in ScopeHeaders : runWithMCPContext(headers)
    \/ \E headers \in ScopeHeaders : runWithMCPContextAsync(headers)
    \/ \E headers \in ScopeHeaders : mcpContextMiddleware(headers)
    \/ ReadContext
    \/ \E ctx \in SetArguments : setMCPContext(ctx)
    \/ CallbackReturns
    \/ \E e \in CallbackErrors : CallbackThrows(e)
    \/ \E c \in {0} \cup ScopeIds : CallbackAwaits(c)
    \/ \E i \in ScopeIds : CallbackResumes(i)
    \/ \E c \in ScopeIds : TopLevelAwaits(c)

SpecContext == InitContext /\ [][NextContext]_vars

(***************************************************************************)
(* The client singleton                                                    *)
(***************************************************************************)
\* getEnvBool(key, defaultValue) on the value of the variable
getEnvBool(value, defaultValue) ==
    IF value.t = "undefined" THEN defaultValue
    ELSE Bool(ToLowerCase(value.s) = << "t", "r", "u", "e" >>)

\* config[key] and process.env[key]: undefined when the key is absent
Given(rec, key) == IF key \in DOMAIN rec THEN rec[key] ELSE Undefined

\* getEnv(key, defaultValue) on the value of the variable
getEnv(value, defaultValue) == Nullish(value, defaultValue)

\* the number that is not one, which parseInt gives a text without digits
NaN == [t |-> "nan"]

RECURSIVE SkipSpaces(_, _)
SkipSpaces(s, i) == IF i <= Len(s) /\ s[i] = " " THEN SkipSpaces(s, i + 1) ELSE i

\* parseInt(s, 10): leading blanks and one sign are skipped, the digits that
\* follow are read, whatever comes after them is ignored
parseInt(s) ==
    LET i == SkipSpaces(s, 1)
        signed == i <= Len(s) /\ s[i] \in { "-", "+" }
        j == IF signed THEN i + 1 ELSE i
    IN IF ~(j <= Len(s) /\ IsDigit(s[j])) THEN NaN
       ELSE LET n == ParseDigits(s, j, 0).v.n IN
            IF signed /\ s[i] = "-" THEN Num(0 - n) ELSE Num(n)

\* getEnvNumber(key, defaultValue) on the value of the variable
getEnvNumber(value, defaultValue) ==
    IF value.t = "undefined" THEN defaultValue
    ELSE LET parsed == parseInt(value.s) IN
         IF parsed = NaN THEN defaultValue ELSE parsed

\* resolveConfig(config) in the environment env
resolveConfig(config, env) ==
    [apiKey |-> Nullish(Given(config, "apiKey"), getEnv(Given(env, "HEIMDALL_API_KEY"), Undefined)),
     endpoint |-> Nullish(Given(config, "endpoint"),
                          getEnv(Given(env, "HEIMDALL_ENDPOINT"),
                                 Str(<< "h", "t", "t", "p", ":", "/", "/", "l", "o", "c", "a", "l", "h", "o", "s", "t", ":", "4", "3", "1", "8" >>))),
     serviceName |-> Nullish(Given(config, "serviceName"),
                             getEnv(Given(env, "HEIMDALL_SERVICE_NAME"),
                                    Str(<< "m", "c", "p", "-", "s", "e", "r", "v", "e", "r" >>))),
     environment |-> Nullish(Given(config, "environment"),
                             getEnv(Given(env, "HEIMDALL_ENVIRONMENT"),
                                    Str(<< "d", "e", "v", "e", "l", "o", "p", "m", "e", "n", "t" >>))),
     orgId |-> Nullish(Given(config, "orgId"),
                       getEnv(Given(env, "HEIMDALL_ORG_ID"), Str(<< "d", "e", "f", "a", "u", "l", "t" >>))),
     projectId |-> Nullish(Given(config, "projectId"),
                           getEnv(Given(env, "HEIMDALL_PROJECT_ID"), Str(<< "d", "e", "f", "a", "u", "l", "t" >>))),
     sessionId |-> Nullish(Given(config, "sessionId"), getEnv(Given(env, "HEIMDALL_SESSION_ID"), Undefined)),
     userId |-> Nullish(Given(config, "userId"), getEnv(Given(env, "HEIMDALL_USER_ID"), Undefined)),
     enabled |-> Nullish(Given(config, "enabled"), getEnvBool(Given(env, "HEIMDALL_ENABLED"), Bool(TRUE))),
     debug |-> Nullish(Given(config, "debug"), getEnvBool(Given(env, "HEIMDALL_DEBUG"), Bool(FALSE))),
     batchSize |-> Nullish(Given(config, "batchSize"),
                           getEnvNumber(Given(env, "HEIMDALL_BATCH_SIZE"), Num(100))),
     flushIntervalMs |-> Nullish(Given(config, "flushIntervalMs"),
                                 getEnvNumber(Given(env, "HEIMDALL_FLUSH_INTERVAL_MS"), Num(5000))),
     maxQueueSize |-> Nullish(Given(config, "maxQueueSize"),
                              getEnvNumber(Given(env, "HEIMDALL_MAX_QUEUE_SIZE"), Num(1000))),
     metadata |-> Nullish(Given(config, "metadata"), EmptyObject)]

\* a < b on numbers
LessThan(a, b) == a.t = "number" /\ b.t = "number" /\ a.n < b.n

BatchSizeMessage == "batchSize must be at least 1"

FlushIntervalMessage == "flushIntervalMs must be at least 100"

MaxQueueSizeMessage == "maxQueueSize must be at least batchSize"

\* validateConfig with the queue size tested before the flush interval
validateConfigQueueFirst(config) ==
    IF LessThan(config.batchSize, Num(1)) THEN Thrown(BatchSizeMessage)
    ELSE IF LessThan(config.maxQueueSize, config.batchSize) THEN Thrown(MaxQueueSizeMessage)
    ELSE IF LessThan(config.flushIntervalMs, Num(100)) THEN Thrown(FlushIntervalMessage)
    ELSE Undefined

\* validateConfig(config): the error it raises, or undefined when it returns
validateConfig(config) ==
    IF LessThan(config.batchSize, Num(1)) THEN Thrown(BatchSizeMessage)
    ELSE IF LessThan(config.flushIntervalMs, Num(100)) THEN Thrown(FlushIntervalMessage)
    ELSE IF LessThan(config.maxQueueSize, config.batchSize) THEN Thrown(MaxQueueSizeMessage)
    ELSE Undefined

\* the options given to resolveConfig: none, those of the tests, and sizes
\* around the limits validateConfig tests
ConfigOptions ==
    { [apiKey |-> Undefined],
      [apiKey |-> Str(<< "k" >>), serviceName |-> Str(<< "x", "s" >>)],
      [endpoint |-> Str(<< "x", "e" >>), environment |-> Str(<< "x", "v" >>)],
      [enabled |-> Bool(TRUE)],
      [enabled |-> Bool(FALSE)],
      [debug |-> Bool(TRUE)],
      [metadata |-> Obj(<< << << "v" >>, Num(1) >> >>)],
      [apiKey |-> Str(<< "k" >>), batchSize |-> Num(0)],
      [apiKey |-> Str(<< "k" >>), flushIntervalMs |-> Num(50)],
      [apiKey |-> Str(<< "k" >>), batchSize |-> Num(100), maxQueueSize |-> Num(50)],
      [apiKey |-> Str(<< "k" >>), batchSize |-> Num(100), flushIntervalMs |-> Num(5000),
       maxQueueSize |-> Num(1000)],
      [batchSize |-> Num(1), flushIntervalMs |-> Num(100), maxQueueSize |-> Num(1)],
      [batchSize |-> Num(0), flushIntervalMs |-> Num(50), maxQueueSize |-> Num(0)],
      [enabled |-> Bool(FALSE), flushIntervalMs |-> Num(99), maxQueueSize |-> Num(0)] }

\* the environments resolveConfig runs in: without Heimdall variables, those
\* of the tests, and numeric variables with texts of every kind
ConfigEnvs ==
    { [HEIMDALL_API_KEY |-> Undefined],
      [HEIMDALL_API_KEY |-> Str(<< "e", "k" >>), HEIMDALL_ENDPOINT |-> Str(<< "e", "e" >>),
       HEIMDALL_SERVICE_NAME |-> Str(<< "e", "s" >>), HEIMDALL_ENVIRONMENT |-> Str(<< "e", "v" >>),
       HEIMDALL_ENABLED |-> Str(<< "f", "a", "l", "s", "e" >>),
       HEIMDALL_DEBUG |-> Str(<< "t", "r", "u", "e" >>)],
      [HEIMDALL_BATCH_SIZE |-> Str(<< "2", "0", "0" >>),
       HEIMDALL_FLUSH_INTERVAL_MS |-> Str(<< "1", "0", "0", "0", "0" >>),
       HEIMDALL_MAX_QUEUE_SIZE |-> Str(<< "2", "0", "0", "0" >>)],
      [HEIMDALL_BATCH_SIZE |-> Str(<< "i", "n", "v", "a", "l", "i", "d" >>)],
      [HEIMDALL_BATCH_SIZE |-> Str(<< "1", "2", "a", "b", "c" >>)],
      [HEIMDALL_BATCH_SIZE |-> Str(<< >>)],
      [HEIMDALL_BATCH_SIZE |-> Str(<< "0" >>)],
      [HEIMDALL_FLUSH_INTERVAL_MS |-> Str(<< "-", "5" >>)],
      [HEIMDALL_MAX_QUEUE_SIZE |-> Str(<< " ", "7" >>)],
      [HEIMDALL_ENABLED |-> Str(<< "T", "R", "U", "E" >>)],
      [HEIMDALL_DEBUG |-> Str(<< "1" >>)],
      [HEIMDALL_SERVICE_NAME |-> Str(<< >>)] }

\* the argument of resolveConfig and the environment it is called in
ConfigCall(config, env) == [t |-> "config", config |-> config, env |-> env]

\* resolveConfig(config) is called
CallResolveConfig ==
    /\ call.fn = "none" /\ call.arg.t = "config"
    /\ call' = [call EXCEPT !.fn = "resolveConfig",
                            !.ret = resolveConfig(call.arg.config, call.arg.env)]
    /\ UNCHANGED << store, stack, scopes, obs, delivered, instance, invocations, clients >>

\* validateConfig is called on the configuration resolveConfig returned
CallValidateConfig ==
    /\ call.fn = "resolveConfig"
    /\ call' = [fn |-> "validateConfig",
                arg |-> [t |-> "resolved", config |-> call.ret, from |-> call.arg],
                ret |-> validateConfig(call.ret)]
    /\ UNCHANGED << store, stack, scopes, obs, delivered, instance, invocations, clients >>

\* resolveConfig is about to be called with some options in some environment
InitConfig ==
    /\ call \in { Pending(ConfigCall(config, env)) : config \in ConfigOptions, env \in ConfigEnvs }
    /\ ContextInit /\ WrapInit

NextConfig ==
    \/ CallResolveConfig
    \/ CallValidateConfig

SpecConfig == InitConfig /\ [][NextConfig]_vars

\* HeimdallClient.getInstance()
getInstance == instance

\* client.getSessionId() and client.getUserId(): the default identifiers of
\* the client, which the configuration initialises
getSessionId(client) == client.config.sessionId

getUserId(client) == client.config.userId

\* a constructor without the singleton test: every call makes a client
ConstructedAnew(config, env) ==
    LET resolved == resolveConfig(config, env) IN
    [t |-> "client", id |-> clients.made + 1, config |-> resolved, tracing |-> resolved.enabled.b]

\* the object new HeimdallClient(config) evaluates to: the instance that exists,
\* or a new client, with tracing set up when the configuration enables it
Constructed(config, env) ==
    IF instance.t # "null" THEN instance
    ELSE LET resolved == resolveConfig(config, env) IN
         [t |-> "client", id |-> clients.made + 1, config |-> resolved,
          tracing |-> resolved.enabled.b]

\* this.provider of a new client: a tracer provider when setupTracing ran,
\* null otherwise; provider.shutdown() was not called yet
NewProvider(client) == [exists |-> client.tracing, shutdowns |-> 0]

\* client.shutdown() up to its await, on the providers of the clients made:
\* provider.shutdown() is called when this.provider is not null
ShutdownCalled(id) ==
    [clients.providers EXCEPT ![id] = IF @.exists THEN [@ EXCEPT !.shutdowns = @ + 1] ELSE @]

\* client.shutdown() is called on a client made earlier
shutdown(id) ==
    /\ id \in 1..Len(clients.providers)
    /\ clients' = [clients EXCEPT !.providers = ShutdownCalled(id)]
    /\ obs' = NoObs
    /\ delivered' = NoDelivery
    /\ UNCHANGED << call, store, stack, scopes, instance, invocations >>

\* new HeimdallClient(config): a new client becomes the instance; the
\* construction and the object it returned are recorded
NewHeimdallClient(config, env) ==
    LET client == Constructed(config, env) IN
    /\ instance' = IF instance.t # "null" THEN instance ELSE client
    /\ clients' = [clients EXCEPT !.made = IF client.id > @ THEN client.id ELSE @,
                                  !.returned = @ \cup { client.id },
                                  !.providers = IF client.id > clients.made
                                                THEN Append(@, NewProvider(client))
                                                ELSE @]
    /\ obs' = NoObs
    /\ delivered' = NoDelivery
    /\ UNCHANGED << call, store, stack, scopes, invocations >>

\* HeimdallClient.instance after the assignment that ends reset()
InstanceCleared == Null

\* HeimdallClient.reset() is called: without an instance it completes at once,
\* with one it calls instance.shutdown() and awaits it
reset ==
    /\ clients' = IF instance.t = "null" THEN [clients EXCEPT !.returned = {}]
                  ELSE [clients EXCEPT !.resetting = @ + 1,
                                       !.providers = ShutdownCalled(instance.id)]
    /\ obs' = NoObs
    /\ delivered' = NoDelivery
    /\ UNCHANGED << call, store, stack, scopes, instance, invocations >>

\* the shutdown a reset() awaits is done: the reset clears the instance and
\* completes
ResetCompletes ==
    /\ clients.resetting > 0
    /\ instance' = InstanceCleared
    /\ clients' = [clients EXCEPT !.resetting = @ - 1, !.returned = {}]
    /\ obs' = NoObs
    /\ delivered' = NoDelivery
    /\ UNCHANGED << call, store, stack, scopes, invocations >>

\* the shutdown a reset() awaits is rejected: the reset is rejected before its
\* assignment
ResetFails ==
    /\ clients.resetting > 0
    /\ clients' = [clients EXCEPT !.resetting = @ - 1]
    /\ obs' = NoObs
    /\ delivered' = NoDelivery
    /\ UNCHANGED << call, store, stack, scopes, instance, invocations >>

\* the number of clients made in one behaviour, and of resets under way at a time
MaxClients == 5

MaxResetting == 3

\* the number of calls of shutdown() on one tracer provider in one behaviour
MaxProviderShutdowns == 2

\* the provider of the client, if it has one, can be shut down once more
MayShutDown(id) ==
    ~clients.providers[id].exists \/ clients.providers[id].shutdowns < MaxProviderShutdowns

NextClient ==
    \/ \E config \in ClientConfigs, env \in ClientEnvs :
           clients.made < MaxClients /\ NewHeimdallClient(config, env)
    \/ clients.resetting < MaxResetting
           /\ (IF instance.t = "null" THEN TRUE ELSE MayShutDown(instance.id))
           /\ reset
    \/ \E id \in 1..MaxClients :
           id <= Len(clients.providers) /\ clients.providers[id].exists /\ MayShutDown(id) /\ shutdown(id)
    \/ ResetCompletes
    \/ ResetFails

SpecClient == InitWrap /\ [][NextClient]_vars

(***************************************************************************)
(* The MCP wrappers: traceMCPTool, traceMCPResource, traceMCPPrompt        *)
(***************************************************************************)
HEIMDALL_SESSION_ID == "heimdall.session_id"

HEIMDALL_USER_ID == "heimdall.user_id"

STATUS == "heimdall.status"

ERROR_MESSAGE == "heimdall.error.message"

ERROR_TYPE == "heimdall.error.type"

DURATION_MS == "heimdall.duration_ms"

Anonymous == Str(<< "a", "n", "o", "n", "y", "m", "o", "u", "s" >>)

StatusOk == Str(<< "o", "k" >>)

StatusError == Str(<< "e", "r", "r", "o", "r" >>)

\* the arguments createMCPWrapper is given for each wrapper
SpanKindOf(w) ==
    CASE w = "tool" -> Str(<< "m", "c", "p", ".", "t", "o", "o", "l" >>)
      [] w = "resource" -> Str(<< "m", "c", "p", ".", "r", "e", "s", "o", "u", "r", "c", "e" >>)
      [] w = "prompt" -> Str(<< "m", "c", "p", ".", "p", "r", "o", "m", "p", "t" >>)

NameAttr(w) ==
    CASE w = "tool" -> "mcp.tool.name"
      [] w = "resource" -> "mcp.resource.uri"
      [] w = "prompt" -> "mcp.prompt.name"

ArgsAttr(w) ==
    CASE w = "tool" -> "mcp.tool.arguments"
      [] w = "resource" -> "mcp.resource.arguments"
      [] w = "prompt" -> "mcp.prompt.arguments"

ResultAttr(w) ==
    CASE w = "tool" -> "mcp.tool.result"
      [] w = "resource" -> "mcp.resource.result"
      [] w = "prompt" -> "mcp.prompt.messages"

\* the operations on a span
StartSpan(name) == [op |-> "startSpan", key |-> "", value |-> name]

SetAttribute(key, value) == [op |-> "setAttribute", key |-> key, value |-> value]

SetStatus(code) == [op |-> "setStatus", key |-> "", value |-> code]

RecordException(e) == [op |-> "recordException", key |-> "", value |-> Thrown(e)]

End == [op |-> "end", key |-> "", value |-> Undefined]

\* const spanName = options.name ?? fn.name ?? "anonymous"
SpanName(options, fn) == Nullish(options.name, Nullish(Str(fn.name), Anonymous))

\* serializeValue(value): JSON.stringify(value), and String(value) when that
\* raises; what String(value) raises is not caught
serializeValue(value) ==
    LET json == JSONStringifyCall(value) IN
    IF IsThrown(json) THEN StringCall(value) ELSE json

\* result[name] = value on the entries of an object
SetProperty(p, name, value) ==
    IF \E j \in 1..Len(p) : p[j][1] = name
    THEN [j \in 1..Len(p) |-> IF p[j][1] = name THEN << name, value >> ELSE p[j]]
    ELSE Append(p, << name, value >>)

\* paramNames[i] ?? `arg${i}`, i counted from 0
ParamName(paramNames, i) ==
    Nullish(IF i < Len(paramNames) THEN paramNames[i + 1] ELSE Undefined,
            Str(<< "a", "r", "g" >> \o DigitsOf(i))).s

\* an argsToNamedObject whose loop runs over the names instead of the arguments
RECURSIVE AssignNames(_, _, _, _)
AssignNames(result, args, paramNames, i) ==
    IF i >= Len(paramNames) THEN result
    ELSE AssignNames(SetProperty(result, ParamName(paramNames, i),
                                 IF i < Len(args) THEN args[i + 1] ELSE Null),
                     args, paramNames, i + 1)

RECURSIVE AssignArgs(_, _, _, _)
\* the loop of argsToNamedObject from index i on
AssignArgs(result, args, paramNames, i) ==
    IF i >= Len(args) THEN result
    ELSE AssignArgs(SetProperty(result, ParamName(paramNames, i), args[i + 1]),
                    args, paramNames, i + 1)

\* argsToNamedObject(args, paramNames)
argsToNamedObject(args, paramNames) ==
    IF paramNames.t = "undefined" \/ Len(paramNames.a) = 0 THEN Arr(args)
    ELSE Obj(AssignArgs(<< >>, args, paramNames.a, 0))

\* the values fn raises that are instances of Error, and the TypeError the
\* runtime raises
InstanceOfError(e) == e \in { FnError, "FnRangeError", "TypeError" }

\* error.name and error.message of the instances of Error
ErrorName(e) ==
    CASE e = FnError -> << "E", "r", "r", "o", "r" >>
      [] e = "FnRangeError" -> << "R", "a", "n", "g", "e", "E", "r", "r", "o", "r" >>
      [] e = "TypeError" -> << "T", "y", "p", "e", "E", "r", "r", "o", "r" >>

ErrorMessage(e) ==
    CASE e = FnError -> << "b", "o", "o", "m" >>
      [] e = "FnRangeError" -> << "f", "a", "r" >>
      [] e = "TypeError" -> << "c", "a", "n", "n", "o", "t", " ", "c", "o", "n", "v", "e", "r", "t" >>

\* the value raised when it is no instance of Error: the string "boom", or an
\* object made by Object.create(null)
RaisedValue(e) == IF e = "FnString" THEN Str(<< "b", "o", "o", "m" >>) ELSE BareCircular

\* errorObj of recordError: error instanceof Error ? error : new Error(String(error));
\* raised when String(error) raises
ErrorObj(e) ==
    IF InstanceOfError(e)
    THEN [raised |-> FALSE, error |-> e, name |-> ErrorName(e), message |-> ErrorMessage(e)]
    ELSE LET text == StringCall(RaisedValue(e)) IN
         IF IsThrown(text)
         THEN [raised |-> TRUE, error |-> text.e, name |-> << >>, message |-> << >>]
         ELSE [raised |-> FALSE, error |-> "Error", name |-> << "E", "r", "r", "o", "r" >>,
               message |-> text.s]

\* recordError(span, error): the operations on the span; none when String(error)
\* raised
recordError(e) ==
    LET errorObj == ErrorObj(e) IN
    IF errorObj.raised THEN << >>
    ELSE << SetAttribute(STATUS, StatusError),
            SetAttribute(ERROR_MESSAGE, Str(errorObj.message)),
            SetAttribute(ERROR_TYPE, Str(errorObj.name)),
            SetStatus(StatusError),
            RecordException(errorObj.error) >>

\* the catch clause of wrapped: recordError(span, error); throw error. What
\* recordError raises replaces the error
Catch(e) ==
    [span |-> recordError(e),
     outcome |-> IF ErrorObj(e).raised THEN Thrown(ErrorObj(e).error) ELSE Thrown(e)]

\* a finally clause that ends the span before it sets the duration
FinallyEndsFirst == << End, SetAttribute(DURATION_MS, [t |-> "duration"]) >>

\* the finally clause of wrapped
Finally == << SetAttribute(DURATION_MS, [t |-> "duration"]), End >>

\* an extractor call outside a try block: what the extractor raised stays
ExtractorResultUncaught(extractor) ==
    IF extractor.t = "absent" THEN Undefined ELSE extractor

\* what the call of an extractor leaves in the identifier: nothing when the
\* option is not given or the extractor raised
ExtractorResult(extractor) ==
    IF extractor.t = "absent" \/ IsThrown(extractor) THEN Undefined ELSE extractor

\* headerData?.sessionId and headerData?.userId
HeaderSessionId(headerData) ==
    IF headerData.t = "undefined" THEN Undefined ELSE headerData.sessionId

HeaderUserId(headerData) ==
    IF headerData.t = "undefined" THEN Undefined ELSE headerData.userId

\* a resolution that asks the client before the extractor and the headers
ResolveSessionIdClientFirst(sessionExtractor, headerData, client) ==
    LET fromClient == getSessionId(client)
        fromHeaders == IF ~Truthy(fromClient) /\ Truthy(HeaderSessionId(headerData))
                       THEN HeaderSessionId(headerData) ELSE fromClient
    IN  IF ~Truthy(fromHeaders) THEN ExtractorResult(sessionExtractor) ELSE fromHeaders

\* the session id wrapped resolves: extractor, then headers, then client
ResolveSessionId(sessionExtractor, headerData, client) ==
    LET fromExtractor == ExtractorResult(sessionExtractor)
        fromHeaders == IF ~Truthy(fromExtractor) /\ Truthy(HeaderSessionId(headerData))
                       THEN HeaderSessionId(headerData) ELSE fromExtractor
    IN  IF ~Truthy(fromHeaders) THEN getSessionId(client) ELSE fromHeaders

\* the user id wrapped resolves: extractor, then headers, then client
ResolveUserId(userExtractor, headerData, client) ==
    LET fromExtractor == ExtractorResult(userExtractor)
        fromHeaders == IF ~Truthy(fromExtractor) /\ Truthy(HeaderUserId(headerData))
                       THEN HeaderUserId(headerData) ELSE fromExtractor
    IN  IF ~Truthy(fromHeaders) THEN getUserId(client) ELSE fromHeaders

\* serializeValue(argsToNamedObject(args, paramNames)) of the call
SerializedInput(options, fn) == serializeValue(argsToNamedObject(fn.args, options.paramNames))

\* the operations of wrapped on its span up to the capture of the input
SpanUntilInput(w, options, fn, headerData, client) ==
    LET sessionId == ResolveSessionId(options.sessionExtractor, headerData, client)
        userId == ResolveUserId(options.userExtractor, headerData, client)
    IN  << StartSpan(SpanName(options, fn)),
           SetAttribute(NameAttr(w), SpanName(options, fn)),
           SetAttribute("heimdall.span_kind", SpanKindOf(w)) >>
        \o (IF Truthy(sessionId) THEN << SetAttribute(HEIMDALL_SESSION_ID, sessionId) >>
            ELSE << >>)
        \o << SetAttribute(HEIMDALL_USER_ID, Nullish(userId, Anonymous)) >>

\* wrapped without the test of captureInput: the input is always recorded
SpanUntilFnCapturing(w, options, fn, headerData, client) ==
    SpanUntilInput(w, options, fn, headerData, client)
        \o (IF ~IsThrown(SerializedInput(options, fn))
            THEN << SetAttribute(ArgsAttr(w), SerializedInput(options, fn)) >>
            ELSE << >>)

\* the operations of wrapped on its span up to the call of fn
SpanUntilFn(w, options, fn, headerData, client) ==
    SpanUntilInput(w, options, fn, headerData, client)
        \o (IF options.captureInput /\ ~IsThrown(SerializedInput(options, fn))
            THEN << SetAttribute(ArgsAttr(w), SerializedInput(options, fn)) >>
            ELSE << >>)

\* the number of extractors wrapped calls
ExtractorCalls(options) ==
    (IF options.sessionExtractor.t = "absent" THEN 0 ELSE 1)
        + (IF options.userExtractor.t = "absent" THEN 0 ELSE 1)

\* the number of the next call of a wrapped function
NextInvocation == Cardinality({ k \in InvocationIds : invocations[k].status # "unused" }) + 1

\* the wrapped function is called, up to its await of what fn returned; without
\* a client it only calls fn
WrappedInvoked(w, options, fn, fnStart) ==
    /\ NextInvocation \in InvocationIds
    /\ LET client == getInstance
           headerData == IF options.headers.t = "undefined" THEN Undefined
                         ELSE WrapperHeaderData[options.headers]
           made == [UnusedInvocation EXCEPT !.wrapper = w, !.options = options, !.fn = fn,
                                            !.fnStart = fnStart, !.client = client,
                                            !.ambient = getMCPContext]
           fnOutcome == IF fnStart = "throws"
                        THEN [status |-> "rejected", outcome |-> Thrown(fn.error)]
                        ELSE [status |-> "awaiting", outcome |-> Undefined]
           started == [made EXCEPT !.headerReads = IF options.headers.t = "undefined" THEN 0 ELSE 1]
           resolved == [started EXCEPT !.extractorCalls = ExtractorCalls(options),
                                       !.serializeCalls = IF options.captureInput THEN 1 ELSE 0]
       IN  invocations' = [invocations EXCEPT ![NextInvocation] =
               IF client.t = "null"
               THEN [made EXCEPT !.fnCalls = 1, !.received = fn.args,
                                 !.fnEnd = IF fnStart = "throws" THEN "raised" ELSE "none",
                                 !.status = fnOutcome.status,
                                 !.outcome = fnOutcome.outcome]
               ELSE IF IsThrown(headerData)
               THEN [started EXCEPT !.status = "rejected", !.outcome = headerData]
               ELSE IF options.captureInput /\ IsThrown(SerializedInput(options, fn))
               THEN [resolved EXCEPT !.status = "rejected",
                                     !.outcome = Catch(SerializedInput(options, fn).e).outcome,
                                     !.span = SpanUntilFn(w, options, fn, headerData, client)
                                                \o Catch(SerializedInput(options, fn).e).span
                                                \o Finally]
               ELSE [resolved EXCEPT !.fnCalls = 1, !.received = fn.args,
                                 !.fnEnd = IF fnStart = "throws" THEN "raised" ELSE "none",
                                 !.status = fnOutcome.status,
                                     !.outcome = IF fnStart = "throws"
                                                 THEN Catch(fn.error).outcome ELSE Undefined,
                                     !.span = SpanUntilFn(w, options, fn, headerData, client)
                                                \o (IF fnStart = "throws"
                                                    THEN Catch(fn.error).span \o Finally
                                                    ELSE << >>)]]
    /\ obs' = NoObs
    /\ delivered' = NoDelivery
    /\ UNCHANGED << call, store, stack, scopes, instance, clients >>

\* a wrapper that resolves the identity again after the await and records it
SpanAfterAwaitRefreshed(inv) ==
    inv.span \o << SetAttribute(HEIMDALL_SESSION_ID, getSessionId(instance)),
                   SetAttribute(HEIMDALL_USER_ID, Nullish(getUserId(instance), Anonymous)) >>

\* the span when wrapped resumes after its await: the operations made before
\* fn was called, the identity attributes among them
SpanAfterAwait(inv) == inv.span

\* what fn returned settles and wrapped goes on after its await
FnSettles(k, fulfilled) ==
    /\ invocations[k].status = "awaiting"
    /\ LET inv == invocations[k]
           settled == [invocations[k] EXCEPT !.fnEnd = IF fulfilled THEN "returned" ELSE "raised"]
           serialized == serializeValue(inv.fn.value)
       IN  invocations' = [invocations EXCEPT ![k] =
               IF inv.client.t = "null"
               THEN [settled EXCEPT !.status = IF fulfilled THEN "resolved" ELSE "rejected",
                                !.outcome = IF fulfilled THEN inv.fn.value
                                            ELSE Thrown(inv.fn.error)]
               ELSE IF fulfilled /\ inv.options.captureOutput /\ IsThrown(serialized)
               THEN [settled EXCEPT !.status = "rejected",
                                !.outcome = Catch(serialized.e).outcome,
                                !.serializeCalls = @ + 1,
                                !.span = SpanAfterAwait(inv) \o Catch(serialized.e).span \o Finally]
               ELSE IF fulfilled
               THEN [settled EXCEPT !.status = "resolved", !.outcome = inv.fn.value,
                                !.serializeCalls = IF inv.options.captureOutput THEN @ + 1 ELSE @,
                                !.span = SpanAfterAwait(inv)
                                           \o (IF inv.options.captureOutput
                                               THEN << SetAttribute(ResultAttr(inv.wrapper), serialized) >>
                                               ELSE << >>)
                                           \o << SetAttribute(STATUS, StatusOk),
                                                 SetStatus(StatusOk) >>
                                           \o Finally]
               ELSE [settled EXCEPT !.status = "rejected", !.outcome = Catch(inv.fn.error).outcome,
                                !.span = SpanAfterAwait(inv) \o Catch(inv.fn.error).span \o Finally]]
    /\ obs' = NoObs
    /\ delivered' = NoDelivery
    /\ UNCHANGED << call, store, stack, scopes, instance, clients >>

NextWrap ==
    \/ \E config \in ClientConfigs, env \in ClientEnvs : NewHeimdallClient(config, env)
    \/ NextScope <= MaxWrapScopes /\ runWithMCPContext(WrapScopeHeaders)
    \/ CallbackReturns
    \/ \E w \in Wrappers, options \in WrapperOptions, fnStart \in FnStarts :
           NextInvocation <= MaxInvocations /\ WrappedInvoked(w, options, PlainFn, fnStart)
    \/ \E k \in InvocationIds, fulfilled \in BOOLEAN : FnSettles(k, fulfilled)

SpecWrap == InitWrap /\ [][NextWrap]_vars

\* the wrappers with and without a client, enabled or not, on functions with
\* and without names and with arguments, values and errors of every kind
NextWrapIO ==
    \/ \E config \in IOConfigs : NewHeimdallClient(config, NoEnv)
    \/ \E w \in Wrappers, options \in IOOptions, fn \in IOFns, fnStart \in FnStarts :
           NextInvocation <= MaxInvocations /\ WrappedInvoked(w, options, fn, fnStart)
    \/ \E k \in InvocationIds, fulfilled \in BOOLEAN : FnSettles(k, fulfilled)

SpecWrapIO == InitWrap /\ [][NextWrapIO]_vars

\* client.setSessionId(sessionId) and client.setUserId(userId): the default
\* identifiers of the client are replaced
setSessionId(sessionId) ==
    /\ instance.t = "client"
    /\ instance' = [instance EXCEPT !.config.sessionId = sessionId]
    /\ obs' = NoObs
    /\ delivered' = NoDelivery
    /\ UNCHANGED << call, store, stack, scopes, invocations, clients >>

setUserId(userId) ==
    /\ instance.t = "client"
    /\ instance' = [instance EXCEPT !.config.userId = userId]
    /\ obs' = NoObs
    /\ delivered' = NoDelivery
    /\ UNCHANGED << call, store, stack, scopes, invocations, clients >>

\* the configurations of the client of concurrent calls: without and with
\* default identifiers
ConcurrentConfigs ==
    { [apiKey |-> Undefined],
      [sessionId |-> Str(<< "c", "s" >>), userId |-> Str(<< "c", "u" >>)] }

\* the identifiers the defaults are changed to
NewSessionIds == { Undefined, Str(<< "n", "s" >>) }

NewUserIds == { Str(<< "n", "u" >>) }

\* the options of concurrent calls: the identity comes from the client, or
\* from the headers option and an extractor
ConcurrentOptions ==
    { [name |-> Undefined, paramNames |-> Undefined, headers |-> h,
       sessionExtractor |-> x[1], userExtractor |-> x[2],
       captureInput |-> TRUE, captureOutput |-> TRUE] :
          << h, x >> \in { << Undefined, << NoExtractor, NoExtractor >> >>,
                          << Headers(<< << MCP_SESSION_ID_HEADER, Str(<< "h", "s" >>) >> >>),
                             << NoExtractor, Str(<< "x", "u" >>) >> >> } }

\* wrapped calls that overlap, while the defaults of the client change
NextWrapConcurrent ==
    \/ \E config \in ConcurrentConfigs : NewHeimdallClient(config, NoEnv)
    \/ \E sessionId \in NewSessionIds : setSessionId(sessionId)
    \/ \E userId \in NewUserIds : setUserId(userId)
    \/ \E options \in ConcurrentOptions :
           NextInvocation <= MaxConcurrent /\ WrappedInvoked("tool", options, PlainFn, "returns")
    \/ \E k \in InvocationIds, fulfilled \in BOOLEAN : FnSettles(k, fulfilled)

SpecWrapConcurrent == InitWrap /\ [][NextWrapConcurrent]_vars

(***************************************************************************)
(* Properties of the decoders (SpecDecoders)                               *)
(***************************************************************************)
\* the number of "." in s
DotCount(s) == Cardinality({ i \in 1..Len(s) : s[i] = "." })

\* the token is not three segments after the prefix is stripped, or its middle
\* segment is empty or does not decode to parseable JSON
Malformed(token) ==
    LET rest == StripBearer(token) IN
    \/ DotCount(rest) # 2
    \/ SplitDot(rest)[2] = << >>
    \/ IsThrown(JSONParse(BufferToString(BufferFromBase64(SplitDot(rest)[2]))))

\* an identifier is absent or a non-empty string
IdentifierOk(v) == v.t = "undefined" \/ (v.t = "string" /\ v.s # << >>)

\* the value of the first name, in order, whose claim is a non-empty string;
\* undefined when there is none
FirstQualifying(claims, names) ==
    LET qualifies(i) == /\ GetProp(claims, names[i]).t = "string"
                        /\ GetProp(claims, names[i]).s # << >>
    IN  IF \E i \in 1..Len(names) : qualifies(i)
        THEN GetProp(claims, names[CHOOSE i \in 1..Len(names) :
                                qualifies(i) /\ \A j \in 1..(i - 1) : ~qualifies(j)])
        ELSE Undefined

\* C6: extractUserIdFromToken, createMCPContext and the wrapper's header
\* extraction return without raising on every token and Authorization value,
\* a payload that is JSON but no object included.
C6_NeverRaises ==
    call.fn \in { "extractUserIdFromToken", "createMCPContext",
                  "wrappers.extractUserIdFromToken", "extractFromHeaders" }
        => ~IsThrown(call.ret)

\* C7: on a malformed token (not three segments after the optional bearer
\* prefix, an empty middle segment, or a middle segment that does not decode to
\* parseable JSON) parseJwtClaims, in both modules, returns {} and raises nothing.
C7_MalformedYieldsEmpty ==
    call.fn \in { "parseJwtClaims", "wrappers.parseJwtClaims" } /\ Malformed(call.arg.s)
        => call.ret = EmptyObject

\* a prefixed token of three segments whose middle one holds characters outside
\* the base64 alphabet and decodes to no JSON was given to parseJwtClaims
C7_Witness ==
    /\ call.fn = "parseJwtClaims"
    /\ StartsWith(ToLowerCase(call.arg.s), BearerPrefix)
    /\ DotCount(call.arg.s) = 2
    /\ \E i \in 1..Len(call.arg.s) : call.arg.s[i] = "!"
    /\ Malformed(call.arg.s)
    /\ call.ret = EmptyObject

\* C8: on a token that carries a claim mapping, extractUserIdFromToken returns
\* the first claim, in the order sub, user_id, userId, uid (then user in the
\* context module), whose value is a non-empty string, and undefined when there
\* is none; in the context module and in the wrappers module's private copy.
C8_FirstNonEmptyStringClaim ==
    /\ call.fn = "extractUserIdFromToken" /\ parseJwtClaims(call.arg.s).t = "object"
        => call.ret = FirstQualifying(parseJwtClaims(call.arg.s), ContextClaimNames)
    /\ call.fn = "wrappers.extractUserIdFromToken"
            /\ wrappersParseJwtClaims(call.arg.s).t = "object"
        => call.ret = FirstQualifying(wrappersParseJwtClaims(call.arg.s), WrapperClaimNames)

\* C9: the session id and the user id of every request context createMCPContext
\* returns are absent or non-empty strings.
C9_ContextIdentifiersNonEmpty ==
    call.fn = "createMCPContext" /\ ~IsThrown(call.ret)
        => IdentifierOk(call.ret.sessionId) /\ IdentifierOk(call.ret.userId)

(***************************************************************************)
(* Properties of the request context store (SpecContext)                   *)
(***************************************************************************)
\* the request context of scope i
ContextOf(i) == ScopeContext[scopes[i].headers]

\* scope i is a run call whose callback was entered
Entered(i) == scopes[i].status # "unused" /\ ~IsThrown(ContextOf(i))

\* C1: every getMCPContext() call of the callback of a runWithMCPContextAsync,
\* before and after its awaits and whatever the other callbacks did meanwhile,
\* returns the context made from that call's own headers, and not the context of
\* another runWithMCPContextAsync that was given other headers.
C1_AsyncCallbacksReadOwnContext ==
    \A i \in ScopeIds :
        obs.by = i /\ scopes[i].kind = "async"
            => /\ obs.value = ContextOf(i)
               /\ \A j \in ScopeIds \ {i} :
                      /\ Entered(j) /\ scopes[j].kind = "async"
                      /\ scopes[j].headers # scopes[i].headers
                      => obs.value # ContextOf(j)

\* two runWithMCPContextAsync calls made side by side with different headers:
\* both callbacks suspended, the second was resumed first and suspended again,
\* and the first, resumed after it, reads the context
C1_Witness ==
    /\ obs.by = 1 /\ obs.afterAwait
    /\ scopes[1].kind = "async" /\ scopes[2].kind = "async"
    /\ scopes[1].caller = 0 /\ scopes[2].caller = 0
    /\ scopes[1].headers # scopes[2].headers
    /\ scopes[2].status = "suspended" /\ scopes[2].resumed
    /\ obs.value = ContextOf(1)

\* C2: in scopes nested to any depth, of runWithMCPContext and
\* runWithMCPContextAsync alike, getMCPContext() called by a callback returns
\* the context of that callback's own scope: the inner one inside the inner
\* callback, the outer one again once the inner scope has returned.
C2_NestedScopesReadOwnContext ==
    /\ obs.by \in ScopeIds => obs.value = ContextOf(obs.by)
    /\ stack # << >> => getMCPContext = ContextOf(Current)
    /\ \A k \in 2..Len(stack) : stack[k].saved = ContextOf(stack[k - 1].scope)

\* two scopes nested with different headers; the inner one has returned and the
\* outer callback, still executing, reads its own context again
C2_Witness ==
    \E outer, inner \in ScopeIds :
        /\ obs.by = outer /\ Current = outer
        /\ scopes[inner].caller = outer
        /\ scopes[inner].status = "returned" /\ Entered(inner)
        /\ scopes[inner].headers # scopes[outer].headers
        /\ obs.value = ContextOf(outer) /\ obs.value # ContextOf(inner)

\* C3: when the callback of a run call raised, or createMCPContext did, the
\* caller receives that very error, and the context the caller sees at that
\* point is the one it saw before the call (that of its own scope, or none).
C3_ErrorReachesCallerStoreRestored ==
    delivered.from # 0 /\ scopes[delivered.from].status = "failed"
        => /\ delivered.error = scopes[delivered.from].error
           /\ delivered.ambient = scopes[delivered.from].before

\* the callback of a runWithMCPContextAsync called inside a scope suspended,
\* was resumed and raised; the calling callback, awaiting it, receives the error
C3_Witness ==
    /\ delivered.from \in ScopeIds /\ delivered.to \in ScopeIds
    /\ scopes[delivered.from].kind = "async"
    /\ scopes[delivered.from].status = "failed" /\ scopes[delivered.from].resumed
    /\ Entered(delivered.from)
    /\ delivered.error = "E2"
    /\ delivered.ambient = ContextOf(delivered.to)

\* C4: getMCPContext() called by code that no scope encloses returns
\* undefined, also after scopes were entered and have completed.
C4_NoContextOutsideScopes ==
    /\ obs.by = 0 => obs.value = Undefined
    /\ stack = << >> => getMCPContext = Undefined

\* a read outside every scope after all the scopes, of different kinds, have
\* completed, one of them by an error and one across an await
C4_Witness ==
    /\ obs.by = 0 /\ obs.value = Undefined
    /\ \A i \in ScopeIds : Entered(i) /\ scopes[i].status \in { "returned", "failed" }
    /\ \E i, j \in ScopeIds : scopes[i].kind # scopes[j].kind
    /\ \E i \in ScopeIds : scopes[i].status = "failed"
    /\ \E i \in ScopeIds : scopes[i].resumed

(***************************************************************************)
(* Properties of the wrappers (SpecWrap)                                   *)
(***************************************************************************)
\* the values the span operations gave to the attribute, in order
AttributeValues(span, key) ==
    LET sets(o) == o.op = "setAttribute" /\ o.key = key
        ops == SelectSeq(span, sets)
    IN  [i \in 1..Len(ops) |-> ops[i].value]

\* the value the headers option holds for the header, whatever the case of
\* the key; undefined without the option or the header
HeaderValue(headers, name) ==
    IF headers.t = "undefined" THEN Undefined
    ELSE LET at == { i \in 1..Len(headers.h) :
                        /\ ToLowerCase(headers.h[i][1]) = ToLowerCase(name)
                        /\ headers.h[i][2].t # "undefined" }
         IN  IF at = {} THEN Undefined ELSE headers.h[CHOOSE i \in at : TRUE][2]

\* the first value of the sequence that is a non-empty string; undefined
\* when there is none
FirstNonEmpty(values) ==
    LET at == { i \in 1..Len(values) : values[i].t = "string" /\ values[i].s # << >> }
    IN  IF at = {} THEN Undefined
        ELSE values[CHOOSE i \in at : \A j \in at : i <= j]

\* the call k of a wrapped function found a client and started a span
Traced(k) == invocations[k].client.t = "client" /\ invocations[k].span # << >>

\* C5: a wrapped function called inside runWithMCPContext(headers, ...), with a
\* client and with no extractor and no headers option, records on its span the
\* session id and the user id of the request context made from those headers.
C5_SpanCarriesAmbientIdentity ==
    \A k \in InvocationIds :
        /\ Traced(k)
        /\ invocations[k].ambient.t = "context"
        /\ invocations[k].options.headers.t = "undefined"
        /\ invocations[k].options.sessionExtractor.t = "absent"
        /\ invocations[k].options.userExtractor.t = "absent"
        => /\ Truthy(invocations[k].ambient.sessionId)
                => AttributeValues(invocations[k].span, HEIMDALL_SESSION_ID)
                       = << invocations[k].ambient.sessionId >>
           /\ Truthy(invocations[k].ambient.userId)
                => AttributeValues(invocations[k].span, HEIMDALL_USER_ID)
                       = << invocations[k].ambient.userId >>

\* C10: on the span of a wrapped call that found a client, the session id
\* attribute is set once, to the first non-empty value among what the
\* sessionExtractor returned, the Mcp-Session-Id value of the headers option
\* and the default session id of the client, and is not set when none has one.
C10_SessionIdPriority ==
    \A k \in InvocationIds :
        Traced(k) =>
            LET inv == invocations[k]
                first == FirstNonEmpty(<< ExtractorResult(inv.options.sessionExtractor),
                                          HeaderValue(inv.options.headers, MCP_SESSION_ID_HEADER),
                                          inv.client.config.sessionId >>)
            IN  AttributeValues(inv.span, HEIMDALL_SESSION_ID)
                    = IF first.t = "undefined" THEN << >> ELSE << first >>

\* a sessionExtractor that returned "", a headers option with a session id and
\* a client with a default session id: the span carries the one of the headers
C10_Witness ==
    \E k \in InvocationIds :
        /\ Traced(k)
        /\ invocations[k].options.sessionExtractor = Str(<< >>)
        /\ Truthy(HeaderValue(invocations[k].options.headers, MCP_SESSION_ID_HEADER))
        /\ Truthy(invocations[k].client.config.sessionId)
        /\ invocations[k].status = "resolved"
        /\ AttributeValues(invocations[k].span, HEIMDALL_SESSION_ID)
               = << HeaderValue(invocations[k].options.headers, MCP_SESSION_ID_HEADER) >>

\* what extractFromHeaders made of the headers option of a call
HeaderDataOf(options) ==
    IF options.headers.t = "undefined" THEN Undefined ELSE WrapperHeaderData[options.headers]

\* C11: on the span of a wrapped call that found a client, the user id
\* attribute is set exactly once, to the first value among what the
\* userExtractor returned, the user id the Authorization header of the headers
\* option yields and the default user id of the client, and to "anonymous"
\* when none of them has one.
C11_UserIdPriority ==
    \A k \in InvocationIds :
        Traced(k) =>
            LET inv == invocations[k]
                first == FirstNonEmpty(<< ExtractorResult(inv.options.userExtractor),
                                          HeaderUserId(HeaderDataOf(inv.options)),
                                          inv.client.config.userId >>)
            IN  AttributeValues(inv.span, HEIMDALL_USER_ID)
                    = << IF first.t = "undefined" THEN Anonymous ELSE first >>

\* the options with every extractor that raises replaced by one that returns
\* undefined
QuietExtractors(options) ==
    [options EXCEPT !.sessionExtractor = IF IsThrown(@) THEN Undefined ELSE @,
                    !.userExtractor = IF IsThrown(@) THEN Undefined ELSE @]

RaisingExtractor(options) ==
    IsThrown(options.sessionExtractor) \/ IsThrown(options.userExtractor)

\* the outcome of a wrapped call is what fn did: the error fn raised or
\* rejected with, or the value fn returned
OutcomeIsFns(inv) ==
    /\ inv.fnCalls = 1
    /\ inv.fnStart = "throws" => inv.status = "rejected"
    /\ inv.status = "rejected" => inv.outcome = Thrown(inv.fn.error)
    /\ inv.status = "resolved" => inv.outcome = inv.fn.value

\* C12: when the sessionExtractor or the userExtractor raises, the wrapped call
\* does not fail for it: the span gets the identifiers it would get had the
\* extractor returned no value, fn is called once and the call ends as fn ends.
C12_ExtractorErrorsSwallowed ==
    \A k \in InvocationIds :
        LET inv == invocations[k] IN
        (inv.status # "unused" /\ inv.client.t = "client" /\ RaisingExtractor(inv.options)
                /\ ~IsThrown(HeaderDataOf(inv.options))) =>
            LET expected == SpanUntilFn(inv.wrapper, QuietExtractors(inv.options), inv.fn,
                                        HeaderDataOf(inv.options), inv.client)
            IN  /\ Len(inv.span) >= Len(expected)
                /\ SubSeq(inv.span, 1, Len(expected)) = expected
                /\ OutcomeIsFns(inv)

\* a call whose userExtractor raised resolved with the value fn returned
C12_Witness ==
    \E k \in InvocationIds :
        /\ Traced(k)
        /\ IsThrown(invocations[k].options.userExtractor)
        /\ invocations[k].status = "resolved"

\* the span of the call k, as a sequence of values op of the operations
Operations(span, op) == SelectSeq(span, LAMBDA o : o.op = op)

\* C13: without a client, or with a client created with enabled = false, a
\* wrapped function only calls fn with the original arguments: no span is
\* started, no extractor is called, no headers are read and nothing is
\* serialized.
C13_PassThroughWithoutEnabledClient ==
    \A k \in InvocationIds :
        LET inv == invocations[k] IN
        (inv.status # "unused" /\ (inv.client.t = "null" \/ ~inv.client.config.enabled.b)) =>
            /\ inv.fnCalls = 1
            /\ inv.received = inv.fn.args
            /\ inv.span = << >>
            /\ inv.extractorCalls = 0
            /\ inv.headerReads = 0
            /\ inv.serializeCalls = 0

\* C14: when fn raises E, at the call or as a rejection, the wrapped call
\* rejects with E itself, the span has the ERROR status, with the message and
\* the name of E when E is an Error, and is ended exactly once.
C14_ErrorPropagatesUnchanged ==
    \A k \in InvocationIds :
        LET inv == invocations[k] IN
        (Traced(k) /\ inv.fnEnd = "raised") =>
            /\ inv.status = "rejected"
            /\ inv.outcome = Thrown(inv.fn.error)
            /\ AttributeValues(inv.span, STATUS) = << StatusError >>
            /\ Operations(inv.span, "setStatus") = << SetStatus(StatusError) >>
            /\ InstanceOfError(inv.fn.error) =>
                  /\ AttributeValues(inv.span, ERROR_MESSAGE) = << Str(ErrorMessage(inv.fn.error)) >>
                  /\ AttributeValues(inv.span, ERROR_TYPE) = << Str(ErrorName(inv.fn.error)) >>
            /\ Len(Operations(inv.span, "end")) = 1

\* C15: the wrapped call resolves with the value of fn exactly when fn returns
\* and rejects exactly when fn raises, whatever the arguments and the returned
\* value are: fn is called, and a serialization that fails is neither raised
\* to the caller nor turns a call of fn that succeeded into a rejection.
C15_OutcomeIsThatOfFn ==
    \A k \in InvocationIds :
        LET inv == invocations[k] IN
        (inv.status \in { "resolved", "rejected" } /\ inv.client.t = "client"
                /\ ~IsThrown(HeaderDataOf(inv.options))) =>
            /\ inv.fnCalls = 1
            /\ inv.fnEnd = "returned" => inv.status = "resolved" /\ inv.outcome = inv.fn.value
            /\ inv.fnEnd = "raised" => inv.status = "rejected"

\* C19: the span name, and the name attribute of the wrapper, is options.name
\* when it is given, else the name of fn, and "anonymous" when fn has no name.
C19_SpanNameDefault ==
    \A k \in InvocationIds :
        Traced(k) =>
            LET inv == invocations[k]
                expected == IF inv.options.name.t # "undefined" THEN inv.options.name
                            ELSE IF inv.fn.name # << >> THEN Str(inv.fn.name)
                            ELSE Anonymous
            IN  /\ Operations(inv.span, "startSpan") = << StartSpan(expected) >>
                /\ AttributeValues(inv.span, NameAttr(inv.wrapper)) = << expected >>

\* the mapping that binds the i-th argument to the i-th name, and to arg<i>
\* when there is no i-th name
NamedArguments(args, names) ==
    Obj([i \in 1..Len(args) |->
            << IF i <= Len(names) THEN names[i].s ELSE << "a", "r", "g" >> \o DigitsOf(i - 1),
               args[i] >>])

\* the input attribute of the call is the serialization of the value, when
\* there is one, and fn received the arguments of the call
InputRecordedAs(inv, value) ==
    /\ ~IsThrown(serializeValue(value)) =>
          AttributeValues(inv.span, ArgsAttr(inv.wrapper)) = << serializeValue(value) >>
    /\ inv.fnCalls = 1 => inv.received = inv.fn.args

\* the text {"query":"hello","limit":5}
SearchInputText == Str(<< "{", "\"", "q", "u", "e", "r", "y", "\"", ":", "\"", "h", "e", "l", "l", "o", "\"", ",", "\"", "l", "i", "m", "i", "t", "\"", ":", "5", "}" >>)

EntriesOf(h, name) == { i \in 1..Len(h) : ToLowerCase(h[i][1]) = ToLowerCase(name) }

\* the mapping with the header name spelled as given
Respelled(h, name) ==
    [i \in 1..Len(h) |-> IF i \in EntriesOf(h, name) THEN << name, h[i][2] >> ELSE h[i]]

\* the function the call applied
Applied(fn, h) == IF fn = "createMCPContext" THEN createMCPContext(h) ELSE extractFromHeaders(h)

\* the identifier a call resolved, or what it raised
Resolved(ret, field) ==
    IF IsThrown(ret) THEN ret ELSE IF field = "sessionId" THEN ret.sessionId ELSE ret.userId

\* spellings of the Authorization header name
AuthSpellings ==
    AuthKeys \cup { << "A", "U", "T", "H", "O", "R", "I", "Z", "A", "T", "I", "O", "N" >> }

\* C16: createMCPContext and extractFromHeaders look headers up whatever the
\* case of the key: for a mapping that holds the session-id header under one
\* key the session id is the same under the spellings mcp-session-id,
\* Mcp-Session-Id and MCP-SESSION-ID of that key, and likewise the user id for
\* the Authorization header.
C16_HeaderLookupIgnoresCase ==
    call.fn \in { "createMCPContext", "extractFromHeaders" } =>
        /\ Cardinality(EntriesOf(call.arg.h, MCP_SESSION_ID_HEADER)) = 1 =>
              \A name \in SessionKeys :
                  Resolved(Applied(call.fn, Respelled(call.arg.h, name)), "sessionId")
                      = Resolved(call.ret, "sessionId")
        /\ Cardinality(EntriesOf(call.arg.h, AUTHORIZATION_HEADER)) = 1 =>
              \A name \in AuthSpellings :
                  Resolved(Applied(call.fn, Respelled(call.arg.h, name)), "userId")
                      = Resolved(call.ret, "userId")

C20_SingletonUntilReset ==
    /\ getInstance = Null <=> clients.returned = {}
    /\ getInstance # Null => clients.returned = { getInstance.id }

\* a third client is the instance, made after two resets that completed, while
\* another reset awaits its shutdown
C20_Witness ==
    /\ getInstance # Null
    /\ getInstance.id = 3
    /\ clients.returned = { 3 }
    /\ clients.resetting > 0

(***************************************************************************)
(* The configuration                                                       *)
(***************************************************************************)
\* the defaults the tests of resolveConfig assert
AssertedDefaults ==
    [endpoint |-> Str(<< "h", "t", "t", "p", "s", ":", "/", "/", "a", "p", "i", ".", "h", "e", "i", "m", "d", "a", "l", "l", ".", "d", "e", "v" >>),
     serviceName |-> Str(<< "m", "c", "p", "-", "s", "e", "r", "v", "e", "r" >>),
     environment |-> Str(<< "d", "e", "v", "e", "l", "o", "p", "m", "e", "n", "t" >>),
     enabled |-> Bool(TRUE),
     debug |-> Bool(FALSE),
     batchSize |-> Num(100),
     flushIntervalMs |-> Num(5000),
     maxQueueSize |-> Num(1000)]

\* the environment variable of each of these fields
EnvVariable ==
    [endpoint |-> "HEIMDALL_ENDPOINT", serviceName |-> "HEIMDALL_SERVICE_NAME",
     environment |-> "HEIMDALL_ENVIRONMENT", enabled |-> "HEIMDALL_ENABLED",
     debug |-> "HEIMDALL_DEBUG", batchSize |-> "HEIMDALL_BATCH_SIZE",
     flushIntervalMs |-> "HEIMDALL_FLUSH_INTERVAL_MS", maxQueueSize |-> "HEIMDALL_MAX_QUEUE_SIZE"]

NumericFields == { "batchSize", "flushIntervalMs", "maxQueueSize" }

BooleanFields == { "enabled", "debug" }

\* a text that is an integer: digits, after a sign or not, and nothing else
IsInteger(s) ==
    LET j == IF Len(s) > 0 /\ s[1] \in { "-", "+" } THEN 2 ELSE 1 IN
    j <= Len(s) /\ \A i \in j..Len(s) : IsDigit(s[i])

IntegerOf(s) ==
    IF s[1] = "-" THEN Num(0 - ParseDigits(s, 2, 0).v.n)
    ELSE ParseDigits(s, IF s[1] = "+" THEN 2 ELSE 1, 0).v

\* the value of a field by the rule: the option, else the variable, else the default
RuledValue(field, config, env) ==
    LET option == Given(config, field)
        variable == Given(env, EnvVariable[field])
    IN IF option.t # "undefined" THEN option
       ELSE IF variable.t # "undefined" /\ (field \in NumericFields => IsInteger(variable.s))
       THEN IF field \in NumericFields THEN IntegerOf(variable.s)
            ELSE IF field \in BooleanFields
            THEN Bool(ToLowerCase(variable.s) = << "t", "r", "u", "e" >>)
            ELSE variable
       ELSE AssertedDefaults[field]

\* C21: every field resolveConfig returns is the explicit option when it is
\* given, else the value of its HEIMDALL_* variable when that is set (to an
\* integer, for a numeric field), else the default the tests assert
C21_ResolveConfigPrecedence ==
    call.fn = "resolveConfig" =>
        \A field \in DOMAIN AssertedDefaults :
            call.ret[field] = RuledValue(field, call.arg.config, call.arg.env)

\* C22: validateConfig raises exactly when batchSize < 1, flushIntervalMs < 100
\* or maxQueueSize < batchSize, the first test that fails in this order giving
\* the message, and returns for every other resolved configuration
C22_ValidateConfigRaisesExactly ==
    call.fn = "validateConfig" =>
        LET config == call.arg.config IN
        call.ret = IF config.batchSize.n < 1 THEN Thrown(BatchSizeMessage)
                   ELSE IF config.flushIntervalMs.n < 100 THEN Thrown(FlushIntervalMessage)
                   ELSE IF config.maxQueueSize.n < config.batchSize.n
                   THEN Thrown(MaxQueueSizeMessage)
                   ELSE Undefined

\* a configuration without API key, disabled, that fails the second and the
\* third test was validated
C22_Witness ==
    /\ call.fn = "validateConfig"
    /\ call.arg.config.apiKey.t = "undefined"
    /\ ~call.arg.config.enabled.b
    /\ call.arg.config.flushIntervalMs.n < 100
    /\ call.arg.config.maxQueueSize.n < call.arg.config.batchSize.n
    /\ call.arg.config.batchSize.n >= 1
    /\ call.ret = Thrown(FlushIntervalMessage)

\* C23: with captureInput = false the arguments attribute is never set and
\* with captureOutput = false the result attribute is never set, whether the
\* call succeeds or fails; with both on, the arguments attribute is set once fn
\* is invoked and the result attribute is set only when fn returned
C23_CaptureFlagsGateAttributes ==
    \A k \in InvocationIds :
        LET inv == invocations[k]
            arguments == AttributeValues(inv.span, ArgsAttr(inv.wrapper))
            result == AttributeValues(inv.span, ResultAttr(inv.wrapper))
        IN  Traced(k) =>
                /\ ~inv.options.captureInput => arguments = << >>
                /\ ~inv.options.captureOutput => result = << >>
                /\ (inv.options.captureInput /\ inv.options.captureOutput) =>
                      /\ inv.fnCalls = 1 => Len(arguments) = 1
                      /\ result # << >> => (inv.fnEnd = "returned" /\ Len(result) = 1)

\* a call with both flags off has resolved and its span is ended
C23_Witness ==
    \E k \in InvocationIds :
        /\ Traced(k)
        /\ ~invocations[k].options.captureInput /\ ~invocations[k].options.captureOutput
        /\ invocations[k].status = "resolved"
        /\ Operations(invocations[k].span, "end") # << >>

\* C25: for a wrapped call with a client, on success and on failure, the span
\* is started before fn is invoked, the duration attribute is set after fn has
\* settled and just before the span is ended, and span.end() is the last
\* operation on the span and happens once
C25_SpanLifecycleOrder ==
    \A k \in InvocationIds :
        LET inv == invocations[k]
            span == inv.span
            n == Len(span)
        IN  Traced(k) =>
                /\ span[1].op = "startSpan"
                /\ Len(Operations(span, "startSpan")) = 1
                /\ inv.status = "awaiting" =>
                      /\ inv.fnCalls = 1
                      /\ AttributeValues(span, DURATION_MS) = << >>
                      /\ Operations(span, "end") = << >>
                /\ inv.status \in { "resolved", "rejected" } =>
                      /\ n >= 3
                      /\ span[n] = End
                      /\ span[n - 1].op = "setAttribute" /\ span[n - 1].key = DURATION_MS
                      /\ Len(Operations(span, "end")) = 1
                      /\ Len(AttributeValues(span, DURATION_MS)) = 1

\* a call whose fn was rejected after the await has ended its span
C25_Witness ==
    \E k \in InvocationIds :
        /\ Traced(k)
        /\ invocations[k].fnStart = "returns"
        /\ invocations[k].fnEnd = "raised"
        /\ invocations[k].status = "rejected"
        /\ invocations[k].span[Len(invocations[k].span)] = End

\* C26: a span ended by a wrapper carries exactly one heimdall.status value,
\* "ok" if and only if the wrapped call resolved and "error" if and only if it
\* rejected
C26_OneStatusMatchingOutcome ==
    \A k \in InvocationIds :
        LET inv == invocations[k] IN
        (Traced(k) /\ Operations(inv.span, "end") # << >>) =>
            AttributeValues(inv.span, STATUS) =
                IF inv.status = "resolved" THEN << StatusOk >> ELSE << StatusError >>

\* C28: fn is invoked exactly once per call of the wrapped function, with the
\* arguments of the call, with or without a client, whatever the extractors
\* return or raise and whatever the headers option holds
C28_FnInvokedExactlyOnce ==
    \A k \in InvocationIds :
        LET inv == invocations[k] IN
        inv.status # "unused" => (inv.fnCalls = 1 /\ inv.received = inv.fn.args)

\* the prefixes a token is passed with: none, and Bearer in three letter cases
BearerPrefixes ==
    { << >>, << "B", "e", "a", "r", "e", "r", " " >>, << "b", "e", "a", "r", "e", "r", " " >>,
      << "B", "E", "A", "R", "E", "R", " " >> }

\* the claim mappings the token carries: the token is a valid token made from
\* them, padded or not, behind one of the prefixes
CarriedClaims(token) ==
    { c \in ClaimInputs : \E p \in BearerPrefixes :
          token \in { p \o createJwtToken(c), p \o createPaddedJwtToken(c) } }

\* C24: for a valid three-segment token whose middle segment is the base64url
\* text, padded or not, of a JSON object, behind a Bearer prefix in any letter
\* case or none, parseJwtClaims returns a mapping equal to that object, and the
\* implementation of the context module and that of the wrappers return the same
C24_ClaimsRoundTrip ==
    call.fn \in { "parseJwtClaims", "wrappers.parseJwtClaims" } =>
        \A c \in CarriedClaims(call.arg.s) :
            /\ call.ret = c
            /\ parseJwtClaims(call.arg.s) = wrappersParseJwtClaims(call.arg.s)

\* the context module decoded a padded token behind an upper-case prefix whose
\* payload holds - and _
C24_Witness ==
    /\ call.fn = "parseJwtClaims"
    /\ call.arg.s = << "B", "E", "A", "R", "E", "R", " " >> \o createPaddedJwtToken(ClaimsUrlChars)
    /\ \E i, j \in 1..Len(call.arg.s) : call.arg.s[i] = "-" /\ call.arg.s[j] = "_"
    /\ call.arg.s[Len(call.arg.s) - 4] = "="
    /\ call.ret = ClaimsUrlChars

\* C29: createMCPContext(headers) and the wrappers' extractFromHeaders(headers)
\* resolve the same session id and the same user id for every header mapping:
\* also when a header is held under two keys that differ in letter case, when a
\* value is the empty string, and when the only usable claim of the token is
\* user or its sub is the empty string
C29_ContextAndWrapperResolveAlike ==
    call.fn \in { "createMCPContext", "extractFromHeaders" } =>
        /\ Resolved(createMCPContext(call.arg.h), "sessionId")
              = Resolved(extractFromHeaders(call.arg.h), "sessionId")
        /\ Resolved(createMCPContext(call.arg.h), "userId")
              = Resolved(extractFromHeaders(call.arg.h), "userId")

\* C30: under any interleaving of client.shutdown() and HeimdallClient.reset()
\* calls, two overlapping resets and a reset after an explicit shutdown
\* included, the tracer provider of a client is shut down at most once
C30_ProviderShutDownAtMostOnce ==
    \A id \in 1..Len(clients.providers) : clients.providers[id].shutdowns <= 1

\* the identity attributes a span carries
IdentityAttributes(span) ==
    << AttributeValues(span, HEIMDALL_SESSION_ID), AttributeValues(span, HEIMDALL_USER_ID) >>

\* the identity attributes of a call whose identifiers resolve as given
IdentityAs(sessionId, userId) ==
    << IF Truthy(sessionId) THEN << sessionId >> ELSE << >>, << Nullish(userId, Anonymous) >> >>

\* C27: the session id and the user id on a span are those resolved when the
\* wrapped function is invoked, before fn runs; a change of the default
\* identity of the client, or the start or the completion of another wrapped
\* call, while fn is suspended does not alter the identity attributes of a
\* span already opened, for any interleaving of concurrent wrapped calls
C27_IdentityFixedAtInvocation ==
    [][\A k \in InvocationIds :
          LET before == invocations[k]
              after == invocations'[k]
          IN  /\ (before.status = "unused" /\ after.status = "awaiting" /\ after.client.t = "client") =>
                    IdentityAttributes(after.span)
                        = IdentityAs(ResolveSessionId(after.options.sessionExtractor,
                                                      HeaderDataOf(after.options), instance),
                                     ResolveUserId(after.options.userExtractor,
                                                   HeaderDataOf(after.options), instance))
              /\ (before.status # "unused" /\ before.client.t = "client") =>
                    IdentityAttributes(after.span) = IdentityAttributes(before.span)]_vars

\* a call that took its identity from the client resolved after the defaults
\* were changed and after a second call, which carries the new identity, began
C27_Witness ==
    /\ getInstance # Null
    /\ getSessionId(getInstance) = Str(<< "n", "s" >>)
    /\ getUserId(getInstance) = Str(<< "n", "u" >>)
    /\ invocations[1].status = "resolved"
    /\ IdentityAttributes(invocations[1].span)
          = << << Str(<< "c", "s" >>) >>, << Str(<< "c", "u" >>) >> >>
    /\ invocations[2].status = "awaiting"
    /\ IdentityAttributes(invocations[2].span)
          = << << Str(<< "n", "s" >>) >>, << Str(<< "n", "u" >>) >> >>

====
